---- MODULE Spec2Model ----
(***************************************************************************)
(* Onshape MCP server (src/src/server.ts) and its transport client         *)
(* (src/unnamed/part_000, imported as ./onshapeApi.js).                    *)
(*                                                                         *)
(* A call is received by the dispatch loop, validated against the tool's   *)
(* zod schema and handed to the tool's async handler.  A handler runs      *)
(* without interruption between two awaits; its only awaits are the        *)
(* requests it sends through onshapeApiRequest.  Several handlers are in   *)
(* flight at once; they interleave at these awaits.  The backend answers a *)
(* request at some later step; the handler resumes with the answer.        *)
(*                                                                         *)
(* JSON objects are records that hold exactly the fields that are present: *)
(* a field that is undefined in JavaScript is a field outside DOMAIN.      *)
(***************************************************************************)
EXTENDS Integers, Sequences, FiniteSets, TLC

\* Number of calls the client sends in one run.
MaxCalls == 2

CallIds == 1..MaxCalls

\* Number of edits other clients of the backend make to the document.
MaxExternalEdits == 1

\* ------------------------------------------------------------ state

VARIABLES
  received,               \* number of calls the dispatch loop has taken
  tool,                   \* per call: the operation it names
  args,                   \* per call: its argument object (the handler's params)
  state,                  \* per call: Idle, Received, Validated, Executing,
                          \*           Succeeded, Failed, Responded (Thrown: an
                          \*           exception left the handler)
  pc,                     \* per call: the await its handler is suspended at
  currentFeatures,        \* per call: the handler's local of that name
  featureDefinitionCall,  \* per call: the handler's local of that name
  result,                 \* per call: the value its handler returned
  netlog,                 \* per call: the requests it sent, with their answers
  microversion,           \* backend: the document's edit counter
  externalEdits,          \* backend: edits made by other clients so far
  channel,                \* per call: the responses written to the client
  registered,             \* the names registered on the server, in order
  phase,                  \* starting, serving, or crashed at startup
  environment,            \* process.env: the credential values that are set
  authHeader,             \* the Authorization header built when the module loads
  stderr,                 \* what loading the module wrote to console.error
  address,                \* the components a URI or REST path is built from
  uri,                    \* the URI built from address
  parsed,                 \* what matching uri against its template gives
  restPath,               \* the REST path built from address
  fetched,                \* what fetch settled with
  outcome                 \* what onshapeApiRequest made of response

\* The variables of the calls and of the backend, of the server's table, and
\* of the functions applied on their own.
callVars == <<received, tool, args, state, pc, currentFeatures, featureDefinitionCall,
              result, netlog, microversion, externalEdits, channel>>
processVars == <<environment, authHeader, stderr>>
serverVars == <<registered, phase, processVars>>
functionVars == <<address, uri, parsed, restPath, fetched, outcome>>

vars == <<callVars, serverVars, functionVars>>

\* ------------------------------------------------------------ JSON values

EmptyObject == <<>>

Has(obj, f) == f \in DOMAIN obj

\* `${obj.f}` in a template string.
Field(obj, f) == IF Has(obj, f) THEN obj[f] ELSE "undefined"

\* { ...a, ...b }
Merge(a, b) ==
  [f \in (DOMAIN a) \cup (DOMAIN b) |-> IF f \in DOMAIN b THEN b[f] ELSE a[f]]

\* The object a zod object schema hands to the handler: unknown keys stripped.
Strip(obj, keys) == [f \in (DOMAIN obj) \cap keys |-> obj[f]]

Last(s) == s[Len(s)]

\* ------------------------------------------------------------ identifiers

DocumentIds == {"D1"}
\* Ids the client may pass where the tool expects a workspace id: the id of
\* a workspace, of a version and of a microversion of document D1.
WorkspaceIds == {"W1"}
VersionIds == {"V1"}
MicroversionIds == {"M1"}
StateIds == WorkspaceIds \cup VersionIds \cup MicroversionIds
ElementIds == {"E1", "E2"}
FeatureIds == {"a/b"}
\* Opaque FeatureScript feature definitions (z.object({}).passthrough()).
Features == {"F1", "F2"}

\* The state selector an id designates in the backend.
KindOf(id) ==
  IF id \in WorkspaceIds THEN "w" ELSE IF id \in VersionIds THEN "v" ELSE "m"

\* encodeURIComponent on the feature ids of the model: "/" becomes "%2F".
encodeURIComponent(s) == IF s = "a/b" THEN "a%2Fb" ELSE s

\* ------------------------------------------------------------ tools

addPartStudioFeatureSchema == {"documentId", "workspaceId", "elementId", "feature"}
updatePartStudioFeatureSchema ==
  {"documentId", "workspaceId", "elementId", "featureId", "feature"}
deletePartStudioFeatureSchema == {"documentId", "workspaceId", "elementId", "featureId"}
\* Required keys; the optional keys of the assembly schemas are in OptionalKeys.
addAssemblyInstanceSchema ==
  {"documentId", "workspaceId", "assemblyElementId", "sourceDocumentId", "sourceElementId"}
transformAssemblyInstancesSchema ==
  {"documentId", "workspaceId", "assemblyElementId", "occurrences", "transform"}

listElementsSchema == {"documentId", "wvm", "wvmid"}

\* z.array(z.number()).length(12)
TransformLength == 12

FeatureTools == {"add_part_studio_feature", "update_part_studio_feature",
                 "delete_part_studio_feature"}
AssemblyTools == {"add_assembly_instance", "transform_assembly_instances"}
MutationTools == FeatureTools \cup AssemblyTools
ReadTools == {"list_elements"}
ResourceNames == {"document", "wvm", "element", "part"}
ToolNames == MutationTools \cup ReadTools \cup ResourceNames

\* Mutant: a catch-all entry also answers to a name nobody registered.
Registrations_CatchAll ==
  <<"document", "wvm", "element", "part", "list_documents", "list_elements",
    "create_document", "create_part_studio", "create_assembly",
    "list_part_studio_feature_specs", "get_part_studio_features",
    "add_part_studio_feature", "update_part_studio_feature",
    "delete_part_studio_feature", "get_assembly_definition", "add_assembly_instance",
    "transform_assembly_instances", "get_part_bounding_box", "get_element_bounding_box",
    "get_element_configuration_definition", "list_part_studio_sketches",
    "get_sketch_tessellation", "no_such_tool">>

\* The names startServer registers, in the order of its server.resource and
\* server.tool calls.
Registrations ==
  <<"document", "wvm", "element", "part", "list_documents", "list_elements",
    "create_document", "create_part_studio", "create_assembly",
    "list_part_studio_feature_specs", "get_part_studio_features",
    "add_part_studio_feature", "update_part_studio_feature",
    "delete_part_studio_feature", "get_assembly_definition", "add_assembly_instance",
    "transform_assembly_instances", "get_part_bounding_box", "get_element_bounding_box",
    "get_element_configuration_definition", "list_part_studio_sketches",
    "get_sketch_tessellation">>

\* A name a client may call that startServer never registers.
UnregisteredNames == {"no_such_tool"}

RequiredKeys(t) ==
  CASE t = "add_part_studio_feature" -> addPartStudioFeatureSchema
    [] t = "update_part_studio_feature" -> updatePartStudioFeatureSchema
    [] t = "delete_part_studio_feature" -> deletePartStudioFeatureSchema
    [] t = "add_assembly_instance" -> addAssemblyInstanceSchema
    [] t = "transform_assembly_instances" -> transformAssemblyInstancesSchema
    [] t = "list_elements" -> listElementsSchema
    [] t = "document" -> {"documentId"}
    [] t = "element" -> {"documentId", "wvm", "wvmid", "elementId"}
    [] t = "part" -> {"documentId", "wvm", "wvmid", "elementId", "partId"}
    [] OTHER -> {"documentId", "wvm", "wvmid"}

OptionalKeys(t) ==
  CASE t = "add_assembly_instance" -> {"transform"}
    [] t = "transform_assembly_instances" -> {"isRelative"}
    [] t = "list_elements" -> {"elementType"}
    [] OTHER -> {}

\* ------------------------------------------------------------ arguments

\* The argument objects the client sends.  Targets: element E1 under the id
\* of a workspace, of a version and of a microversion, and element E2 under
\* the workspace; the second target comes with the second feature.
FeatureArgs ==
  { [documentId |-> "D1", workspaceId |-> w, elementId |-> "E1", feature |-> "F1"] :
      w \in StateIds }
    \cup { [documentId |-> "D1", workspaceId |-> w, elementId |-> "E2", feature |-> "F2"] :
             w \in WorkspaceIds }

\* Existing features are addressed in element E1, under the id of a workspace
\* and of a version.
ExistingFeatureArgs ==
  { Merge(a, [featureId |-> i]) :
      a \in {x \in FeatureArgs : x.elementId = "E1" /\ x.workspaceId \notin MicroversionIds},
      i \in FeatureIds }

\* A 3x4 transform as a flat array of twelve numbers, and an array that is
\* too short.
Transforms == {<<1, 0, 0, 0, 0, 1, 0, 0, 0, 0, 1, 0>>}
ShortTransforms == {<<1, 0, 0>>}

ArgsOf(t) ==
  CASE t = "add_part_studio_feature" -> FeatureArgs
    [] t = "update_part_studio_feature" -> ExistingFeatureArgs
    [] t = "delete_part_studio_feature" ->
         { Strip(a, deletePartStudioFeatureSchema) : a \in ExistingFeatureArgs }
    [] t = "add_assembly_instance" ->
         { [documentId |-> "D1", workspaceId |-> w, assemblyElementId |-> "E2",
            sourceDocumentId |-> "D1", sourceElementId |-> "E1"] :
             w \in WorkspaceIds \cup VersionIds }
    [] t = "transform_assembly_instances" ->
         { [documentId |-> "D1", workspaceId |-> w, assemblyElementId |-> "E2",
            occurrences |-> "O1", transform |-> m] :
             w \in WorkspaceIds \cup VersionIds, m \in Transforms }
    [] t = "list_elements" ->
         { [documentId |-> "D1", wvm |-> "w", wvmid |-> "W1", elementType |-> "ASSEMBLY"],
           [documentId |-> "D1", wvm |-> "v", wvmid |-> "V1"] }
    [] t = "document" -> { [documentId |-> "D1"] }
    [] t = "element" ->
         { [documentId |-> "D1", wvm |-> k, wvmid |-> "W1", elementId |-> "E1"] :
             k \in {"w", "x"} }
    [] t = "part" ->
         { [documentId |-> "D1", wvm |-> k, wvmid |-> "W1", elementId |-> "E1",
            partId |-> "P1"] : k \in {"w", "x"} }
    [] OTHER ->
         { [documentId |-> "D1", wvm |-> k, wvmid |-> "W1"] : k \in {"w", "x"} }

\* Argument objects the input schema rejects: the required workspaceId is
\* missing, the transform has not twelve numbers, the state token is not one
\* of w, v, m.
InvalidArgs(t) ==
  (IF t \in MutationTools
     THEN { [documentId |-> "D1", elementId |-> "E1", wvm |-> "v", wvmid |-> "V1"] }
     ELSE {})
  \cup (IF t = "transform_assembly_instances"
          THEN { [documentId |-> "D1", workspaceId |-> "W1", assemblyElementId |-> "E2",
                  occurrences |-> "O1", transform |-> m] : m \in ShortTransforms }
          ELSE {})
  \cup (IF t = "list_elements"
          THEN { [documentId |-> "D1", wvm |-> "x", wvmid |-> "W1"] }
          ELSE {})

\* ------------------------------------------------------------ requests

NoBody == <<>>
NoResponse == <<>>

\* Buffer.from(s).toString('base64'), s given as the parts of the string.
Base64(s) == [base64 |-> s]

\* Mutant: keys that are not set are replaced by built-in ones.
AuthHeader_DefaultKeys(env) ==
  <<"Basic", Base64(<<IF Has(env, "ONSHAPE_ACCESS_KEY") THEN env.ONSHAPE_ACCESS_KEY ELSE "AK",
                      ":",
                      IF Has(env, "ONSHAPE_SECRET_KEY") THEN env.ONSHAPE_SECRET_KEY ELSE "SK">>)>>

\* 'Basic ' + Buffer.from(`${ONSHAPE_ACCESS_KEY}:${ONSHAPE_SECRET_KEY}`).toString('base64'):
\* a key that is not set goes in as the text undefined.
AuthHeader(env) ==
  <<"Basic", Base64(<<Field(env, "ONSHAPE_ACCESS_KEY"), ":",
                      Field(env, "ONSHAPE_SECRET_KEY")>>)>>

\* if (!ONSHAPE_ACCESS_KEY || !ONSHAPE_SECRET_KEY) console.error(...); nothing else.
KeysWarning(env) ==
  IF ~Has(env, "ONSHAPE_ACCESS_KEY") \/ ~Has(env, "ONSHAPE_SECRET_KEY")
    THEN <<"Onshape API keys not set.">>
    ELSE <<>>

\* The key pair the backend knows, and the environments a process starts in.
IssuedKeys == [ONSHAPE_ACCESS_KEY |-> "AK", ONSHAPE_SECRET_KEY |-> "SK"]
IncompleteEnvironments ==
  { Strip(IssuedKeys, ks) : ks \in (SUBSET DOMAIN IssuedKeys) \ {DOMAIN IssuedKeys} }

\* Mutant: a write is signed with a key taken from its body.
Request_KeyFromBody(method, path, body) ==
  [method |-> method, path |-> path, body |-> body,
   authorization |-> IF body = NoBody THEN authHeader
                     ELSE <<"Basic", Base64(<<"caller", ":", "key">>)>>,
   response |-> NoResponse]

\* The request onshapeApiRequest hands to fetch: headers.Authorization is
\* the module's authHeader.
Request(method, path, body) ==
  [method |-> method, path |-> path, body |-> body, authorization |-> authHeader,
   response |-> NoResponse]

\* Mutant: the state token is taken from the kind of the id.
FeaturesPath_BySelector(params) ==
  <<"partstudios", "d", params.documentId, KindOf(params.workspaceId), params.workspaceId,
    "e", params.elementId, "features">>

\* `/partstudios/d/${documentId}/w/${workspaceId}/e/${elementId}/features`
FeaturesPath(params) ==
  <<"partstudios", "d", params.documentId, "w", params.workspaceId,
    "e", params.elementId, "features">>

\* Mutant: the write goes to a fixed element of the workspace.
FeatureIdPath_FixedElement(params) ==
  <<"partstudios", "d", params.documentId, "w", params.workspaceId,
    "e", "E2", "features", "featureid", encodeURIComponent(params.featureId)>>

\* `.../features/featureid/${encodeURIComponent(params.featureId)}`
FeatureIdPath(params) ==
  FeaturesPath(params) \o <<"featureid", encodeURIComponent(params.featureId)>>

\* `/assemblies/d/${documentId}/w/${workspaceId}/e/${assemblyElementId}/instances`
InstancesPath(params) ==
  <<"assemblies", "d", params.documentId, "w", params.workspaceId,
    "e", params.assemblyElementId, "instances">>

TransformOccurrencesPath(params) ==
  <<"assemblies", "d", params.documentId, "w", params.workspaceId,
    "e", params.assemblyElementId, "transformoccurrences">>

\* The three paths of the wvm resource, one per state token.
\* `/documents/${documentId}`
DocumentPath(params) == <<"documents", params.documentId>>

WvmPath(params) ==
  CASE params.wvm = "w" -> <<"documents", "d", params.documentId, "workspaces", params.wvmid>>
    [] params.wvm = "v" -> <<"documents", "d", params.documentId, "versions", params.wvmid>>
    [] OTHER -> <<"documents", "d", params.documentId, params.wvm, params.wvmid,
                  "currentmicroversion">>

\* Mutant: the element path spells the state out as the wvm path does.
ElementPath_BySelector(params) ==
  <<"documents", "d", params.documentId,
    IF params.wvm = "w" THEN "workspaces" ELSE IF params.wvm = "v" THEN "versions" ELSE "m",
    params.wvmid, "elements", params.elementId>>

\* `/documents/d/${documentId}/${wvm}/${wvmid}/elements/${elementId}`
ElementPath(params) ==
  <<"documents", "d", params.documentId, params.wvm, params.wvmid,
    "elements", params.elementId>>

\* `/metadata/d/${documentId}/${wvm}/${wvmid}/e/${elementId}/pi/${partId}`
PartPath(params) ==
  <<"metadata", "d", params.documentId, params.wvm, params.wvmid,
    "e", params.elementId, "pi", params.partId>>

\* `/documents/d/${documentId}/${wvm}/${wvmid}/elements` and the query
\* elementType=..., which defaults to PARTSTUDIO,ASSEMBLY.
ElementsPath(params) ==
  <<"documents", "d", params.documentId, params.wvm, params.wvmid, "elements",
    "?elementType",
    IF Has(params, "elementType") THEN params.elementType ELSE "PARTSTUDIO,ASSEMBLY">>

IsWrite(req) == req.method \in {"POST", "DELETE"}

\* ------------------------------------------------------------ backend

\* What fetch() settles with: a rejection (network error), or a response
\* with a status and a body text; json is the value a JSON body text encodes.
NetworkError ==
  [fetch |-> "rejected", status |-> 0, statusText |-> "", text |-> "", json |-> EmptyObject]

HttpError(status, statusText) ==
  [fetch |-> "resolved", status |-> status, statusText |-> statusText,
   text |-> "garbage", json |-> EmptyObject]

Ok(text, json) ==
  [fetch |-> "resolved", status |-> 200, statusText |-> "OK", text |-> text, json |-> json]

\* The backend finds the state a path addresses.
TargetExists(path) ==
  IF Len(path) = 2 THEN path[2] \in DocumentIds
  ELSE
  /\ path[3] \in DocumentIds
  /\ CASE path[4] \in {"w", "workspaces"} -> path[5] \in WorkspaceIds
       [] path[4] \in {"v", "versions"} -> path[5] \in VersionIds
       [] path[4] = "m" -> path[5] \in MicroversionIds
       [] OTHER -> FALSE

Stamps(mv) ==
  [serializationVersion |-> "1.2.4", libraryVersion |-> "2850",
   sourceMicroversion |-> ToString(mv)]

\* A feature list as the backend returns it: all three stamps, or one missing.
ReadBodies(mv) ==
  {Stamps(mv)} \cup { Strip(Stamps(mv), (DOMAIN Stamps(mv)) \ {f}) : f \in DOMAIN Stamps(mv) }

\* The answer to a feature-list write at new microversion mv: the new source
\* microversion, and optionally a skew indicator, an error feature state and
\* notices.
WriteBodies(mv) ==
  { Merge(Merge(Merge([sourceMicroversion |-> ToString(mv),
                       feature |-> [name |-> "Sketch 1", featureId |-> "fNew"]],
                      IF skew THEN [microversionSkew |-> TRUE] ELSE EmptyObject),
                [featureState |-> [featureStatus |-> status]]),
          IF notices THEN [notices |-> <<[level |-> "WARNING", message |-> "N1"]>>]
          ELSE EmptyObject) :
      skew \in BOOLEAN, status \in {"OK", "ERROR"}, notices \in BOOLEAN }

\* The answer to a feature deletion: no feature and no feature state.
DeleteBodies(mv) ==
  { Strip(b, {"sourceMicroversion", "microversionSkew", "notices"}) : b \in WriteBodies(mv) }

SuccessBodies(req, mv) ==
  CASE Len(req.path) = 2 ->
         {[name |-> "Document 1", id |-> req.path[2],
           defaultWorkspace |-> [name |-> "Main", id |-> "W1"]]}
    [] req.path[1] = "partstudios" /\ req.method = "GET" -> ReadBodies(mv)
    [] req.path[1] = "partstudios" /\ req.method = "POST" -> WriteBodies(mv + 1)
    [] req.path[1] = "partstudios" /\ req.method = "DELETE" -> DeleteBodies(mv + 1)
    [] req.path[1] = "assemblies" /\ Last(req.path) = "instances" ->
         {[name |-> "Part 1 <1>", id |-> "I1"]}
    [] req.path[1] = "assemblies" -> {EmptyObject}
    [] req.path[1] = "documents" /\ Len(req.path) > 7 /\ req.path[6] = "elements" ->
         {<<[name |-> "Part Studio 1", id |-> "E1", prettyType |-> "Part Studio"]>>}
    [] req.path[1] = "documents" /\ Len(req.path) = 7 /\ req.path[6] = "elements" ->
         {[name |-> "Part Studio 1", prettyType |-> "Part Studio",
           elementType |-> "PARTSTUDIO"]}
    [] req.path[1] = "metadata" ->
         {[properties |-> <<[name |-> "Name", value |-> "Part 1"]>>]}
    [] OTHER -> {[name |-> "Main", id |-> req.path[5], microversion |-> ToString(mv)]}

\* The backend accepts the credential of the request.
Authorized(req) ==
  req.authorization =
    <<"Basic", Base64(<<IssuedKeys.ONSHAPE_ACCESS_KEY, ":", IssuedKeys.ONSHAPE_SECRET_KEY>>)>>

\* Every way the backend may settle request req at document microversion mv,
\* with the microversion it leaves: a write that succeeds advances it; a
\* request without a valid credential is refused whatever it addresses.
BackendExchange(req, mv) ==
  LET failures == {NetworkError}
                    \cup (IF ~Authorized(req)
                            THEN {HttpError(401, "Unauthorized")}
                          ELSE IF TargetExists(req.path)
                            THEN {HttpError(500, "Internal Server Error")}
                          ELSE {HttpError(404, "Not Found")})
      successes == IF Authorized(req) /\ TargetExists(req.path)
                   THEN { Ok("json", j) : j \in SuccessBodies(req, mv) }
                          \cup {Ok("", EmptyObject), Ok("garbage", EmptyObject)}
                   ELSE {}
  IN  { [response |-> r, microversion |-> mv] : r \in failures }
        \cup { [response |-> r, microversion |-> IF IsWrite(req) THEN mv + 1 ELSE mv] :
                 r \in successes }

\* ------------------------------------------------------------ transport

Returned(value) == [threw |-> FALSE, value |-> value, error |-> EmptyObject]
Threw(error) == [threw |-> TRUE, value |-> EmptyObject, error |-> error]
NoOutcome == Returned(EmptyObject)

\* Mutant: the body of a refused request is returned as the value.
onshapeApiRequest_ReturnsErrorBody(response) ==
  IF response.fetch = "rejected"
    THEN Threw([message |-> "fetch failed"])
  ELSE IF response.text = ""
    THEN Returned(EmptyObject)
  ELSE IF response.text = "garbage" /\ response.status >= 200 /\ response.status <= 299
    THEN Threw([message |-> "SyntaxError: Unexpected token"])
  ELSE Returned(response.json)

\* Mutant: a body that does not parse counts as an empty one.
onshapeApiRequest_EmptyOnParseFailure(response) ==
  IF response.fetch = "rejected"
    THEN Threw([message |-> "fetch failed"])
  ELSE IF ~(response.status >= 200 /\ response.status <= 299)
    THEN Threw([message |-> "Onshape API Error", status |-> response.status,
                statusText |-> response.statusText, errorBody |-> response.text])
  ELSE IF response.text \in {"", "garbage"}
    THEN Returned(EmptyObject)
  ELSE Returned(response.json)

\* onshapeApiRequest once fetch has settled with response: the parsed body,
\* {} for an empty body, or the error it throws.
onshapeApiRequest(response) ==
  IF response.fetch = "rejected"
    THEN Threw([message |-> "fetch failed"])
  ELSE IF ~(response.status >= 200 /\ response.status <= 299)
    THEN Threw([message |-> "Onshape API Error", status |-> response.status,
                statusText |-> response.statusText, errorBody |-> response.text])
  ELSE IF response.text = ""
    THEN Returned(EmptyObject)
  ELSE IF response.text = "garbage"
    THEN Threw([message |-> "SyntaxError: Unexpected token"])
  ELSE Returned(response.json)

\* ------------------------------------------------------------ handler steps

\* A local variable that is still undefined, and a call without a result.
NoValue == <<>>
NoResult == <<>>

\* What a handler does between two awaits: it sends a request and suspends,
\* it returns a result, or an exception leaves it.
Await(at, request, cf, fdc) ==
  [next |-> "await", pc |-> at, request |-> request,
   currentFeatures |-> cf, featureDefinitionCall |-> fdc, result |-> NoResult]

Return(res) ==
  [next |-> "return", pc |-> "done", request |-> NoValue,
   currentFeatures |-> NoValue, featureDefinitionCall |-> NoValue, result |-> res]

Throw(error) ==
  [next |-> "throw", pc |-> "done", request |-> NoValue,
   currentFeatures |-> NoValue, featureDefinitionCall |-> NoValue,
   result |-> [isError |-> TRUE, content |-> <<[k |-> "uncaught", error |-> error]>>]]

\* { content: [{ type: "text", text }] } and the same with isError: true.
\* The text is the sequence of its parts, in order.
Success(content) == [isError |-> FALSE, content |-> content]
Failure(content) == [isError |-> TRUE, content |-> content]

\* `- [${notice.level}] ${notice.message}\n` for each notice, in order.
NoticeLines(notices) ==
  [i \in 1..Len(notices) |->
     [k |-> "Notice", level |-> notices[i].level, message |-> notices[i].message]]

HasNotices(response) == Has(response, "notices") /\ Len(response.notices) > 0

\* ------------------------------------------------------------ resource URIs

\* The resource URI templates, as the "/"-separated pieces that follow
\* "onshape://".
DOC_URI_TEMPLATE == <<"document", "{documentId}">>
WVM_URI_TEMPLATE == DOC_URI_TEMPLATE \o <<"{wvm}", "{wvmid}">>
ELEMENT_URI_TEMPLATE == WVM_URI_TEMPLATE \o <<"element", "{elementId}">>
PART_URI_TEMPLATE == ELEMENT_URI_TEMPLATE \o <<"part", "{partId}">>

\* The "/"-separated pieces of a string of the model.
Split(s) == IF s = "a/b" THEN <<"a", "b">> ELSE <<s>>

\* template.replace(var, value): the first occurrence of var is replaced by
\* the value as it is, "/" included.
RECURSIVE Replace(_, _, _)
Replace(template, var, value) ==
  IF template = <<>> THEN <<>>
  ELSE IF Head(template) = var THEN Split(value) \o Tail(template)
  ELSE <<Head(template)>> \o Replace(Tail(template), var, value)

\* new URL(ELEMENT_URI_TEMPLATE.replace(...).replace(...).replace(...).replace(...)):
\* a missing component is inserted as "undefined".
ElementUri(a) ==
  Replace(Replace(Replace(Replace(ELEMENT_URI_TEMPLATE,
    "{documentId}", Field(a, "documentId")), "{wvm}", Field(a, "wvm")),
    "{wvmid}", Field(a, "wvmid")), "{elementId}", Field(a, "elementId"))

\* DOC_URI_TEMPLATE.replace("{documentId}", doc.id)
DocumentUri(a) == Replace(DOC_URI_TEMPLATE, "{documentId}", Field(a, "documentId"))

\* new URL(WVM_URI_TEMPLATE.replace("{documentId}", docInfo.id).replace("{wvm}", "w")
\*   .replace("{wvmid}", docInfo.defaultWorkspace.id)): built for workspaces only.
WvmUri(a) ==
  Replace(Replace(Replace(WVM_URI_TEMPLATE,
    "{documentId}", Field(a, "documentId")), "{wvm}", "w"), "{wvmid}", Field(a, "wvmid"))

\* The URI the code builds with the template of resource kind s; no call
\* site builds one with PART_URI_TEMPLATE.
UriOf(s, a) ==
  CASE s = "document" -> DocumentUri(a)
    [] s = "wvm" -> WvmUri(a)
    [] s = "element" -> ElementUri(a)

BuiltKinds == {"document", "wvm", "element"}

\* A URI matches a template when it has the template's pieces, any non-empty
\* piece standing for a {variable}.
IsVariable(piece) ==
  piece \in {"{documentId}", "{wvm}", "{wvmid}", "{elementId}", "{partId}"}

Matches(template, u) ==
  /\ Len(u) = Len(template)
  /\ \A i \in DOMAIN template : IsVariable(template[i]) \/ u[i] = template[i]

NoMatch == [error |-> "no template matches"]

\* The Address a URI stands for: the variables of the template it matches.
Parse(u) ==
  CASE Matches(DOC_URI_TEMPLATE, u) -> [documentId |-> u[2]]
    [] Matches(WVM_URI_TEMPLATE, u) -> [documentId |-> u[2], wvm |-> u[3], wvmid |-> u[4]]
    [] Matches(ELEMENT_URI_TEMPLATE, u) ->
         [documentId |-> u[2], wvm |-> u[3], wvmid |-> u[4], elementId |-> u[6]]
    [] Matches(PART_URI_TEMPLATE, u) ->
         [documentId |-> u[2], wvm |-> u[3], wvmid |-> u[4], elementId |-> u[6],
          partId |-> u[8]]
    [] OTHER -> NoMatch

\* ------------------------------------------------------------ add_part_studio_feature

\* !currentFeatures.serializationVersion || !...libraryVersion || !...sourceMicroversion
\* Mutant: libraryVersion is not checked.
StampsPresent_NoLibraryVersion(cf) ==
  /\ Has(cf, "serializationVersion")
  /\ Has(cf, "sourceMicroversion")

StampsPresent(cf) ==
  /\ Has(cf, "serializationVersion")
  /\ Has(cf, "libraryVersion")
  /\ Has(cf, "sourceMicroversion")

\* Mutant: the snapshot is kept in one variable shared by the handlers, so a
\* write is stamped with what the first invocation read.
FeatureDefinitionCall_Shared(params, cf) ==
  LET shared == IF currentFeatures[1] # NoValue THEN currentFeatures[1] ELSE cf
  IN  [feature |-> params.feature,
       serializationVersion |-> Field(shared, "serializationVersion"),
       sourceMicroversion |-> Field(shared, "sourceMicroversion"),
       libraryVersion |-> Field(shared, "libraryVersion")]

FeatureDefinitionCall(params, cf) ==
  [feature |-> params.feature,
   serializationVersion |-> Field(cf, "serializationVersion"),
   sourceMicroversion |-> Field(cf, "sourceMicroversion"),
   libraryVersion |-> Field(cf, "libraryVersion")]

\* Mutant: an error feature state gets no warning.
FeatureStateLines_NoWarning(response) ==
  <<[k |-> "New Microversion", sourceMicroversion |-> Field(response, "sourceMicroversion")]>>
  \o (IF HasNotices(response)
      THEN <<[k |-> "FeatureScript Notices:"]>> \o NoticeLines(response.notices)
      ELSE <<>>)

\* "New Microversion: ...", then the warning of an error feature state, else
\* the notices.
FeatureStateLines(response) ==
  <<[k |-> "New Microversion", sourceMicroversion |-> Field(response, "sourceMicroversion")]>>
  \o (IF Has(response, "featureState")
          /\ Field(response.featureState, "featureStatus") = "ERROR"
      THEN <<[k |-> "Warning: error state"]>>
           \o (IF Has(response.featureState, "errorMessage")
               THEN <<[k |-> "Error Message",
                       errorMessage |-> response.featureState.errorMessage]>>
               ELSE <<>>)
      ELSE IF HasNotices(response)
      THEN <<[k |-> "FeatureScript Notices:"]>> \o NoticeLines(response.notices)
      ELSE <<>>)

addOutputText(fdc, response) ==
  <<[k |-> "Feature added successfully.", input |-> fdc,
     output |-> response]>>
  \o (IF Has(response, "feature") /\ Has(response.feature, "name")
      THEN <<[k |-> "Name", name |-> response.feature.name]>> ELSE <<>>)
  \o (IF Has(response, "feature") /\ Has(response.feature, "featureId")
      THEN <<[k |-> "ID", featureId |-> response.feature.featureId]>> ELSE <<>>)
  \o FeatureStateLines(response)

\* Mutant: the catch block rethrows.
addCatch_Rethrow(error, fdc) == Throw(error)

addCatch(error, fdc) ==
  Return(Failure(<<[k |-> "Error adding feature", error |-> error,
                    featureDefinitionCall |-> fdc]>>))

\* Mutant: the handler posts without reading the feature list first.
add_part_studio_feature_NoRead(params, at, cf, fdc, r) ==
  CASE at = "start" ->
         Await("awaitWrite",
               Request("POST", FeaturesPath(params), FeatureDefinitionCall(params, cf)),
               cf, FeatureDefinitionCall(params, cf))
    [] OTHER ->
         IF r.threw THEN addCatch(r.error, fdc)
         ELSE Return(Success(addOutputText(fdc, r.value)))

\* The handler from position at, resumed with the outcome r of the request
\* it awaited.
add_part_studio_feature(params, at, cf, fdc, r) ==
  CASE at = "start" ->
         Await("awaitRead", Request("GET", FeaturesPath(params), NoBody), cf, fdc)
    [] at = "awaitRead" ->
         IF r.threw THEN addCatch(r.error, fdc)
         ELSE IF ~StampsPresent(r.value)
           THEN addCatch([message |->
                  "Failed to fetch necessary Part Studio metadata for adding feature."], fdc)
         ELSE Await("awaitWrite",
                    Request("POST", FeaturesPath(params), FeatureDefinitionCall(params, r.value)),
                    r.value, FeatureDefinitionCall(params, r.value))
    [] OTHER ->
         IF r.threw THEN addCatch(r.error, fdc)
         ELSE Return(Success(addOutputText(fdc, r.value)))

\* ------------------------------------------------------------ update_part_studio_feature

updateOutputText(params, response) ==
  <<[k |-> "Feature updated successfully.", featureId |-> params.featureId]>>
  \o FeatureStateLines(response)

\* Mutant: the catch block rethrows.
updateCatch_Rethrow(params, error) == Throw(error)

updateCatch(params, error) ==
  Return(Failure(<<[k |-> "Error updating feature", featureId |-> params.featureId,
                    error |-> error]>>))

\* Mutant: the write is sent whatever became of the read.
update_part_studio_feature_WritesBlind(params, at, cf, fdc, r) ==
  CASE at = "start" ->
         Await("awaitRead", Request("GET", FeaturesPath(params), NoBody), cf, fdc)
    [] at = "awaitRead" ->
         Await("awaitWrite",
               Request("POST", FeatureIdPath(params), FeatureDefinitionCall(params, r.value)),
               r.value, FeatureDefinitionCall(params, r.value))
    [] OTHER ->
         IF r.threw THEN updateCatch(params, r.error)
         ELSE Return(Success(updateOutputText(params, r.value)))

update_part_studio_feature(params, at, cf, fdc, r) ==
  CASE at = "start" ->
         Await("awaitRead", Request("GET", FeaturesPath(params), NoBody), cf, fdc)
    [] at = "awaitRead" ->
         IF r.threw THEN updateCatch(params, r.error)
         ELSE IF ~StampsPresent(r.value)
           THEN updateCatch(params, [message |->
                  "Failed to fetch necessary Part Studio metadata for updating feature."])
         ELSE Await("awaitWrite",
                    Request("POST", FeatureIdPath(params), FeatureDefinitionCall(params, r.value)),
                    r.value, FeatureDefinitionCall(params, r.value))
    [] OTHER ->
         IF r.threw THEN updateCatch(params, r.error)
         ELSE Return(Success(updateOutputText(params, r.value)))

\* ------------------------------------------------------------ delete_part_studio_feature

deleteOutputText(params, response) ==
  <<[k |-> "Feature deleted successfully.", featureId |-> params.featureId]>>
  \o (IF Has(response, "microversionSkew") /\ response.microversionSkew
      THEN <<[k |-> "Warning: Microversion skew detected during deletion."]>> ELSE <<>>)
  \o (IF HasNotices(response)
      THEN <<[k |-> "Notices during deletion:"]>> \o NoticeLines(response.notices)
      ELSE <<>>)

\* Mutant: the catch block rethrows.
deleteCatch_Rethrow(params, error) == Throw(error)

\* Mutant: the catch block reports the deletion as done.
deleteCatch_ReportsDone(params, error) ==
  Return(Success(<<[k |-> "Feature deleted successfully.", featureId |-> params.featureId]>>))

deleteCatch(params, error) ==
  Return(Failure(<<[k |-> "Error deleting feature", featureId |-> params.featureId,
                    error |-> error]>>))

\* Mutant: a skew signal makes the handler send the DELETE again.
delete_part_studio_feature_RetryOnSkew(params, at, cf, fdc, r) ==
  CASE at = "start" ->
         Await("awaitWrite", Request("DELETE", FeatureIdPath(params), NoBody), cf, fdc)
    [] OTHER ->
         IF r.threw THEN deleteCatch(params, r.error)
         ELSE IF Has(r.value, "microversionSkew")
           THEN Await("awaitWrite", Request("DELETE", FeatureIdPath(params), NoBody), cf, fdc)
         ELSE Return(Success(deleteOutputText(params, r.value)))

delete_part_studio_feature(params, at, cf, fdc, r) ==
  CASE at = "start" ->
         Await("awaitWrite", Request("DELETE", FeatureIdPath(params), NoBody), cf, fdc)
    [] OTHER ->
         IF r.threw THEN deleteCatch(params, r.error)
         ELSE Return(Success(deleteOutputText(params, r.value)))

\* ------------------------------------------------------------ assembly tools

addInstanceRequestBody(params) ==
  Merge([documentId |-> params.sourceDocumentId, elementId |-> params.sourceElementId],
        IF Has(params, "transform") THEN [transform |-> params.transform] ELSE EmptyObject)

addInstanceOutputText(response) ==
  <<[k |-> "Assembly instance added successfully."]>>
  \o (IF Has(response, "name") THEN <<[k |-> "Instance name", name |-> response.name]>>
      ELSE <<>>)
  \o (IF Has(response, "id") THEN <<[k |-> "Instance ID", id |-> response.id]>> ELSE <<>>)

addInstanceCatch(error) ==
  Return(Failure(<<[k |-> "Error adding assembly instance", error |-> error]>>))

add_assembly_instance(params, at, cf, fdc, r) ==
  CASE at = "start" ->
         Await("awaitWrite",
               Request("POST", InstancesPath(params), addInstanceRequestBody(params)), cf, fdc)
    [] OTHER ->
         IF r.threw THEN addInstanceCatch(r.error)
         ELSE Return(Success(addInstanceOutputText(r.value)))

\* Mutant: the transform is left out of the payload.
transformRequestBody_NoTransform(params) ==
  [occurrences |-> params.occurrences]

\* { occurrences, transform } and isRelative when it is given.
transformRequestBody(params) ==
  Merge([occurrences |-> params.occurrences, transform |-> params.transform],
        IF Has(params, "isRelative") THEN [isRelative |-> params.isRelative]
        ELSE EmptyObject)

transformCatch(error) ==
  Return(Failure(<<[k |-> "Error transforming assembly instances", error |-> error]>>))

transform_assembly_instances(params, at, cf, fdc, r) ==
  CASE at = "start" ->
         Await("awaitWrite",
               Request("POST", TransformOccurrencesPath(params), transformRequestBody(params)),
               cf, fdc)
    [] OTHER ->
         IF r.threw THEN transformCatch(r.error)
         ELSE Return(Success(<<[k |-> "Assembly instances transformed successfully."]>>))

\* ------------------------------------------------------------ list_elements

\* String.prototype.toUpperCase on a state token.
ToUpperCase(token) ==
  CASE token = "w" -> "W"
    [] token = "v" -> "V"
    [] token = "m" -> "M"
    [] token = "x" -> "X"
    [] OTHER -> token

\* A formatting of the arguments alone, which leaves the answer out.
listElementsOutputText_ArgumentsOnly(params, elements) ==
  <<[k |-> "Elements in document", documentId |-> params.documentId,
     wvm |-> ToUpperCase(params.wvm), wvmid |-> params.wvmid]>>

listElementsOutputText(params, elements) ==
  <<Merge([k |-> "Elements in document", documentId |-> params.documentId,
           wvm |-> ToUpperCase(params.wvm), wvmid |-> params.wvmid],
          IF Has(params, "elementType") THEN [elementType |-> params.elementType]
          ELSE EmptyObject)>>
  \o (IF Len(elements) > 0
      THEN [i \in 1..Len(elements) |->
              [k |-> "Element", name |-> Field(elements[i], "name"),
               id |-> Field(elements[i], "id"),
               prettyType |-> Field(elements[i], "prettyType"),
               uri |-> ElementUri([documentId |-> params.documentId, wvm |-> params.wvm,
                                   wvmid |-> params.wvmid,
                                   elementId |-> Field(elements[i], "id")])]]
      ELSE <<[k |-> "No elements found matching the criteria in this state."]>>)

listElementsCatch(error) ==
  Return(Failure(<<[k |-> "Error listing elements", error |-> error]>>))

list_elements(params, at, cf, fdc, r) ==
  CASE at = "start" ->
         Await("awaitRead", Request("GET", ElementsPath(params), NoBody), cf, fdc)
    [] OTHER ->
         IF r.threw THEN listElementsCatch(r.error)
         ELSE Return(Success(listElementsOutputText(params, r.value)))

\* ------------------------------------------------------------ document resource

\* `${docInfo.description || 'N/A'}`, `${docInfo.owner?.name || 'N/A'}`
OrNotAvailable(obj, f) == IF Has(obj, f) THEN obj[f] ELSE "N/A"

documentContentText(docInfo) ==
  <<[k |-> "Onshape Document", name |-> Field(docInfo, "name"),
     id |-> Field(docInfo, "id"),
     description |-> OrNotAvailable(docInfo, "description"),
     owner |-> IF Has(docInfo, "owner") THEN OrNotAvailable(docInfo.owner, "name")
               ELSE "N/A",
     modifiedAt |-> Field(docInfo, "modifiedAt"),
     createdAt |-> Field(docInfo, "createdAt")]>>
    \o (IF Has(docInfo, "defaultWorkspace") /\ Has(docInfo.defaultWorkspace, "id")
          THEN <<[k |-> "Default Workspace",
                  name |-> Field(docInfo.defaultWorkspace, "name"),
                  id |-> docInfo.defaultWorkspace.id,
                  uri |-> WvmUri([documentId |-> Field(docInfo, "id"),
                                  wvmid |-> docInfo.defaultWorkspace.id])]>>
          ELSE <<>>)

documentCatch(error) ==
  Return(Failure(<<[k |-> "Error reading document", error |-> error]>>))

\* Mutant: the document resource touches the document when it is read.
document_resource_Touches(params, at, cf, fdc, r) ==
  CASE at = "start" ->
         Await("awaitRead", Request("POST", DocumentPath(params), EmptyObject), cf, fdc)
    [] OTHER ->
         IF r.threw THEN documentCatch(r.error)
         ELSE Return(Success(documentContentText(r.value)))

document_resource(params, at, cf, fdc, r) ==
  CASE at = "start" ->
         Await("awaitRead", Request("GET", DocumentPath(params), NoBody), cf, fdc)
    [] OTHER ->
         IF r.threw THEN documentCatch(r.error)
         ELSE Return(Success(documentContentText(r.value)))

\* ------------------------------------------------------------ wvm resource

wvmContentText(params, wvmInfo) ==
  <<[k |-> "Onshape Document", documentId |-> params.documentId, wvm |-> ToUpperCase(params.wvm),
     wvmid |-> params.wvmid],
    [k |-> "Microversion", microversion |-> Field(wvmInfo, "microversion")]>>

wvmCatch(error) == Return(Failure(<<[k |-> "Error reading WVM", error |-> error]>>))

wvm_resource(params, at, cf, fdc, r) ==
  CASE at = "start" ->
         IF params.wvm \in {"w", "v", "m"}
           THEN Await("awaitRead", Request("GET", WvmPath(params), NoBody), cf, fdc)
           ELSE wvmCatch([message |-> "Invalid WVM type", wvm |-> params.wvm])
    [] OTHER ->
         IF r.threw THEN wvmCatch(r.error)
         ELSE Return(Success(wvmContentText(params, r.value)))

\* ------------------------------------------------------------ element resource

elementContentText(params, elementInfo) ==
  <<[k |-> "Onshape Element", name |-> Field(elementInfo, "name"),
     type |-> Field(elementInfo, "prettyType"), elementId |-> params.elementId,
     documentId |-> params.documentId, wvm |-> ToUpperCase(params.wvm), wvmid |-> params.wvmid]>>
    \o (IF Field(elementInfo, "elementType") = "PARTSTUDIO"
          THEN <<[k |-> "Available Tools for Part Studio"]>>
        ELSE IF Field(elementInfo, "elementType") = "ASSEMBLY"
          THEN <<[k |-> "Available Tools for Assembly"]>>
        ELSE <<>>)

elementCatch(error) == Return(Failure(<<[k |-> "Error reading element", error |-> error]>>))

\* The state token goes into the path as it came.
element_resource(params, at, cf, fdc, r) ==
  CASE at = "start" ->
         Await("awaitRead", Request("GET", ElementPath(params), NoBody), cf, fdc)
    [] OTHER ->
         IF r.threw THEN elementCatch(r.error)
         ELSE Return(Success(elementContentText(params, r.value)))

\* ------------------------------------------------------------ part resource

partContentText(params, partMetadata) ==
  <<[k |-> "Onshape Part", partId |-> params.partId, elementId |-> params.elementId,
     documentId |-> params.documentId, wvm |-> ToUpperCase(params.wvm), wvmid |-> params.wvmid]>>
    \o (IF Has(partMetadata, "properties")
          THEN [i \in 1..Len(partMetadata.properties) |->
                  [k |-> "Property", name |-> partMetadata.properties[i].name,
                   value |-> partMetadata.properties[i].value]]
          ELSE <<[k |-> "Could not retrieve detailed properties."]>>)

partCatch(error) == Return(Failure(<<[k |-> "Error reading part", error |-> error]>>))

\* The state token goes into the path as it came.
part_resource(params, at, cf, fdc, r) ==
  CASE at = "start" ->
         Await("awaitRead", Request("GET", PartPath(params), NoBody), cf, fdc)
    [] OTHER ->
         IF r.threw THEN partCatch(r.error)
         ELSE Return(Success(partContentText(params, r.value)))

\* ------------------------------------------------------------ initial state

\* The builders, the matcher and onshapeApiRequest before they are applied.
NoUri == [template |-> "none", href |-> <<>>]
NotParsed == [parsed |-> FALSE]
NoPath == [kind |-> "none", path |-> <<>>]
NotCalled == [called |-> FALSE]

Init ==
  /\ received = 0
  /\ tool = [c \in CallIds |-> "none"]
  /\ args = [c \in CallIds |-> EmptyObject]
  /\ state = [c \in CallIds |-> "Idle"]
  /\ pc = [c \in CallIds |-> "start"]
  /\ currentFeatures = [c \in CallIds |-> NoValue]
  /\ featureDefinitionCall = [c \in CallIds |-> NoValue]
  /\ result = [c \in CallIds |-> NoResult]
  /\ netlog = [c \in CallIds |-> <<>>]
  /\ microversion = 1
  /\ externalEdits = 0
  /\ channel = [c \in CallIds |-> <<>>]
  /\ registered = <<>>
  /\ phase = "starting"
  /\ environment = IssuedKeys
  /\ authHeader = AuthHeader(environment)
  /\ stderr = KeysWarning(environment)
  /\ address = EmptyObject
  /\ uri = NoUri
  /\ parsed = NotParsed
  /\ restPath = NoPath
  /\ fetched = NetworkError
  /\ outcome = NotCalled

\* ------------------------------------------------------------ startup

IsRegistered(name) == \E i \in DOMAIN registered : registered[i] = name

\* The first position of names that repeats an earlier name, 0 if none.
FirstDuplicate(names) ==
  LET dups == { i \in DOMAIN names : \E j \in 1..(i - 1) : names[j] = names[i] }
  IN  IF dups = {} THEN 0 ELSE CHOOSE i \in dups : \A j \in dups : i <= j

\* startServer: the registrations run in one go, then the server connects
\* to the transport.  Registering a name again throws: startServer rejects
\* before connect and the process ends with the error logged.
startServer ==
  /\ phase = "starting"
  /\ IF FirstDuplicate(Registrations) = 0
       THEN registered' = Registrations /\ phase' = "serving"
       ELSE /\ registered' = SubSeq(Registrations, 1, FirstDuplicate(Registrations) - 1)
            /\ phase' = "crashed"
  /\ UNCHANGED <<callVars, processVars, functionVars>>

\* ------------------------------------------------------------ dispatch

\* What a client sends with the name t.
CallArgs(t) ==
  IF t \in ToolNames THEN ArgsOf(t) \cup InvalidArgs(t) ELSE {[documentId |-> "D1"]}

\* The dispatch loop takes the next call from the channel.
Receive(c) ==
  /\ phase = "serving"
  /\ c = received + 1
  /\ state[c] = "Idle"
  /\ \E t \in ToolNames \cup UnregisteredNames :
       \E a \in CallArgs(t) :
         /\ tool' = [tool EXCEPT ![c] = t]
         /\ args' = [args EXCEPT ![c] = a]
  /\ received' = c
  /\ state' = [state EXCEPT ![c] = "Received"]
  /\ UNCHANGED <<pc, currentFeatures, featureDefinitionCall, result, netlog,
                 microversion, externalEdits, channel, serverVars, functionVars>>

\* Mutant: only the presence of the required keys is checked.
SchemaAccepts_RequiredOnly(t, a) == RequiredKeys(t) \subseteq DOMAIN a

\* The zod schema of tool t parses a: every required key is there, wvm is
\* one of the enum's values, a transform has twelve numbers.
SchemaAccepts(t, a) ==
  /\ RequiredKeys(t) \subseteq DOMAIN a
  /\ t \in ReadTools => a.wvm \in {"w", "v", "m"}
  /\ (t \in AssemblyTools /\ Has(a, "transform")) => Len(a.transform) = TransformLength

\* The name is looked up and the input schema is applied: the handler gets
\* the parsed object, or the call fails without a handler being invoked.
Validate(c) ==
  /\ state[c] = "Received"
  /\ IF ~IsRegistered(tool[c])
       THEN /\ state' = [state EXCEPT ![c] = "Failed"]
            /\ result' = [result EXCEPT
                            ![c] = Failure(<<[k |-> "Unknown tool", tool |-> tool[c]]>>)]
            /\ UNCHANGED args
     ELSE IF SchemaAccepts(tool[c], args[c])
       THEN /\ args' = [args EXCEPT
                            ![c] = Strip(@, RequiredKeys(tool[c]) \cup OptionalKeys(tool[c]))]
            /\ state' = [state EXCEPT ![c] = "Validated"]
            /\ UNCHANGED result
       ELSE /\ state' = [state EXCEPT ![c] = "Failed"]
            /\ result' = [result EXCEPT
                            ![c] = Failure(<<[k |-> "Invalid arguments", tool |-> tool[c]]>>)]
            /\ UNCHANGED args
  /\ UNCHANGED <<received, tool, pc, currentFeatures, featureDefinitionCall, netlog,
                 microversion, externalEdits, channel, serverVars, functionVars>>

\* The response of a finished call is written to the channel; nothing of the
\* call is kept (no session state, no document cache).
Respond(c) ==
  /\ state[c] \in {"Succeeded", "Failed"}
  /\ state' = [state EXCEPT ![c] = "Responded"]
  /\ channel' = [channel EXCEPT ![c] = Append(@, [isError |-> result[c].isError])]
  /\ tool' = [tool EXCEPT ![c] = "none"]
  /\ args' = [args EXCEPT ![c] = EmptyObject]
  /\ result' = [result EXCEPT ![c] = NoResult]
  /\ netlog' = [netlog EXCEPT ![c] = <<>>]
  /\ UNCHANGED <<received, pc, currentFeatures, featureDefinitionCall, microversion,
                 externalEdits, serverVars, functionVars>>

\* ------------------------------------------------------------ handlers

\* Mutant: a handler registers a further tool when it runs.
HandlerKeepsTable_RegistersTool ==
  registered' = Append(registered, "late_tool") /\ UNCHANGED <<phase, processVars>>

\* No handler calls server.tool or server.resource.
HandlerKeepsTable == UNCHANGED serverVars

\* Call c's handler has run up to step: its locals, its request or its result.
Apply(c, step, log) ==
  /\ pc' = [pc EXCEPT ![c] = step.pc]
  /\ currentFeatures' = [currentFeatures EXCEPT ![c] = step.currentFeatures]
  /\ featureDefinitionCall' = [featureDefinitionCall EXCEPT ![c] = step.featureDefinitionCall]
  /\ netlog' = [netlog EXCEPT
                  ![c] = IF step.next = "await" THEN Append(log, step.request) ELSE log]
  /\ result' = [result EXCEPT ![c] = step.result]
  /\ state' = [state EXCEPT
                 ![c] = CASE step.next = "await" -> "Executing"
                          [] step.next = "throw" -> "Thrown"
                          [] step.result.isError -> "Failed"
                          [] OTHER -> "Succeeded"]
  /\ HandlerKeepsTable
  /\ UNCHANGED <<received, tool, args, externalEdits, channel, functionVars>>

\* The handler of a validated call starts and runs to its first await.
Starts(c, t) == state[c] = "Validated" /\ tool[c] = t

\* The request call c awaits, in flight.
InFlight(c) == Last(netlog[c])

Answered(c, response) ==
  [netlog[c] EXCEPT ![Len(netlog[c])] = [@ EXCEPT !.response = response]]

Resumes(c, t) == state[c] = "Executing" /\ tool[c] = t

AddPartStudioFeatureStart(c) ==
  /\ Starts(c, "add_part_studio_feature")
  /\ Apply(c, add_part_studio_feature(args[c], "start", NoValue, NoValue, NoOutcome),
           netlog[c])
  /\ UNCHANGED microversion

\* Mutant: the handler's locals are module-level variables, so a resumed
\* handler continues with what the first invocation stored.
AddPartStudioFeatureResume_SharedLocals(c) ==
  /\ Resumes(c, "add_part_studio_feature")
  /\ \E x \in BackendExchange(InFlight(c), microversion) :
       /\ microversion' = x.microversion
       /\ Apply(c, add_part_studio_feature(args[c], pc[c], currentFeatures[1],
                     featureDefinitionCall[1], onshapeApiRequest(x.response)),
                Answered(c, x.response))

AddPartStudioFeatureResume(c) ==
  /\ Resumes(c, "add_part_studio_feature")
  /\ \E x \in BackendExchange(InFlight(c), microversion) :
       /\ microversion' = x.microversion
       /\ Apply(c, add_part_studio_feature(args[c], pc[c], currentFeatures[c],
                     featureDefinitionCall[c], onshapeApiRequest(x.response)),
                Answered(c, x.response))

UpdatePartStudioFeatureStart(c) ==
  /\ Starts(c, "update_part_studio_feature")
  /\ Apply(c, update_part_studio_feature(args[c], "start", NoValue, NoValue, NoOutcome),
           netlog[c])
  /\ UNCHANGED microversion

UpdatePartStudioFeatureResume(c) ==
  /\ Resumes(c, "update_part_studio_feature")
  /\ \E x \in BackendExchange(InFlight(c), microversion) :
       /\ microversion' = x.microversion
       /\ Apply(c, update_part_studio_feature(args[c], pc[c], currentFeatures[c],
                     featureDefinitionCall[c], onshapeApiRequest(x.response)),
                Answered(c, x.response))

DeletePartStudioFeatureStart(c) ==
  /\ Starts(c, "delete_part_studio_feature")
  /\ Apply(c, delete_part_studio_feature(args[c], "start", NoValue, NoValue, NoOutcome),
           netlog[c])
  /\ UNCHANGED microversion

DeletePartStudioFeatureResume(c) ==
  /\ Resumes(c, "delete_part_studio_feature")
  /\ \E x \in BackendExchange(InFlight(c), microversion) :
       /\ microversion' = x.microversion
       /\ Apply(c, delete_part_studio_feature(args[c], pc[c], currentFeatures[c],
                     featureDefinitionCall[c], onshapeApiRequest(x.response)),
                Answered(c, x.response))

AddAssemblyInstanceStart(c) ==
  /\ Starts(c, "add_assembly_instance")
  /\ Apply(c, add_assembly_instance(args[c], "start", NoValue, NoValue, NoOutcome),
           netlog[c])
  /\ UNCHANGED microversion

AddAssemblyInstanceResume(c) ==
  /\ Resumes(c, "add_assembly_instance")
  /\ \E x \in BackendExchange(InFlight(c), microversion) :
       /\ microversion' = x.microversion
       /\ Apply(c, add_assembly_instance(args[c], pc[c], currentFeatures[c],
                     featureDefinitionCall[c], onshapeApiRequest(x.response)),
                Answered(c, x.response))

TransformAssemblyInstancesStart(c) ==
  /\ Starts(c, "transform_assembly_instances")
  /\ Apply(c, transform_assembly_instances(args[c], "start", NoValue, NoValue, NoOutcome),
           netlog[c])
  /\ UNCHANGED microversion

TransformAssemblyInstancesResume(c) ==
  /\ Resumes(c, "transform_assembly_instances")
  /\ \E x \in BackendExchange(InFlight(c), microversion) :
       /\ microversion' = x.microversion
       /\ Apply(c, transform_assembly_instances(args[c], pc[c], currentFeatures[c],
                     featureDefinitionCall[c], onshapeApiRequest(x.response)),
                Answered(c, x.response))

ListElementsStart(c) ==
  /\ Starts(c, "list_elements")
  /\ Apply(c, list_elements(args[c], "start", NoValue, NoValue, NoOutcome), netlog[c])
  /\ UNCHANGED microversion

ListElementsResume(c) ==
  /\ Resumes(c, "list_elements")
  /\ \E x \in BackendExchange(InFlight(c), microversion) :
       /\ microversion' = x.microversion
       /\ Apply(c, list_elements(args[c], pc[c], currentFeatures[c],
                     featureDefinitionCall[c], onshapeApiRequest(x.response)),
                Answered(c, x.response))

DocumentResourceStart(c) ==
  /\ Starts(c, "document")
  /\ Apply(c, document_resource(args[c], "start", NoValue, NoValue, NoOutcome), netlog[c])
  /\ UNCHANGED microversion

DocumentResourceResume(c) ==
  /\ Resumes(c, "document")
  /\ \E x \in BackendExchange(InFlight(c), microversion) :
       /\ microversion' = x.microversion
       /\ Apply(c, document_resource(args[c], pc[c], currentFeatures[c],
                     featureDefinitionCall[c], onshapeApiRequest(x.response)),
                Answered(c, x.response))

WvmResourceStart(c) ==
  /\ Starts(c, "wvm")
  /\ Apply(c, wvm_resource(args[c], "start", NoValue, NoValue, NoOutcome), netlog[c])
  /\ UNCHANGED microversion

WvmResourceResume(c) ==
  /\ Resumes(c, "wvm")
  /\ \E x \in BackendExchange(InFlight(c), microversion) :
       /\ microversion' = x.microversion
       /\ Apply(c, wvm_resource(args[c], pc[c], currentFeatures[c],
                     featureDefinitionCall[c], onshapeApiRequest(x.response)),
                Answered(c, x.response))

ElementResourceStart(c) ==
  /\ Starts(c, "element")
  /\ Apply(c, element_resource(args[c], "start", NoValue, NoValue, NoOutcome), netlog[c])
  /\ UNCHANGED microversion

ElementResourceResume(c) ==
  /\ Resumes(c, "element")
  /\ \E x \in BackendExchange(InFlight(c), microversion) :
       /\ microversion' = x.microversion
       /\ Apply(c, element_resource(args[c], pc[c], currentFeatures[c],
                     featureDefinitionCall[c], onshapeApiRequest(x.response)),
                Answered(c, x.response))

PartResourceStart(c) ==
  /\ Starts(c, "part")
  /\ Apply(c, part_resource(args[c], "start", NoValue, NoValue, NoOutcome), netlog[c])
  /\ UNCHANGED microversion

PartResourceResume(c) ==
  /\ Resumes(c, "part")
  /\ \E x \in BackendExchange(InFlight(c), microversion) :
       /\ microversion' = x.microversion
       /\ Apply(c, part_resource(args[c], pc[c], currentFeatures[c],
                     featureDefinitionCall[c], onshapeApiRequest(x.response)),
                Answered(c, x.response))

\* Another client of the backend edits the document.
ExternalEdit ==
  /\ externalEdits < MaxExternalEdits
  /\ externalEdits' = externalEdits + 1
  /\ microversion' = microversion + 1
  /\ UNCHANGED <<received, tool, args, state, pc, currentFeatures, featureDefinitionCall,
                 result, netlog, channel, serverVars, functionVars>>

\* One step of call c.
Step(c) ==
  \/ Receive(c)
  \/ Validate(c)
  \/ AddPartStudioFeatureStart(c)
  \/ AddPartStudioFeatureResume(c)
  \/ UpdatePartStudioFeatureStart(c)
  \/ UpdatePartStudioFeatureResume(c)
  \/ DeletePartStudioFeatureStart(c)
  \/ DeletePartStudioFeatureResume(c)
  \/ AddAssemblyInstanceStart(c)
  \/ AddAssemblyInstanceResume(c)
  \/ TransformAssemblyInstancesStart(c)
  \/ TransformAssemblyInstancesResume(c)
  \/ ListElementsStart(c)
  \/ ListElementsResume(c)
  \/ DocumentResourceStart(c)
  \/ DocumentResourceResume(c)
  \/ WvmResourceStart(c)
  \/ WvmResourceResume(c)
  \/ ElementResourceStart(c)
  \/ ElementResourceResume(c)
  \/ PartResourceStart(c)
  \/ PartResourceResume(c)
  \/ Respond(c)

Next == startServer \/ ExternalEdit \/ \E c \in CallIds : Step(c)

Spec == Init /\ [][Next]_vars

\* Every started step of a call is eventually taken: the event loop runs
\* every ready continuation and fetch settles every request.
FairSpec == Spec /\ \A c \in CallIds : WF_vars(Step(c))

\* The process started with a credential value missing.
MissingKeyInit ==
  /\ received = 0
  /\ tool = [c \in CallIds |-> "none"]
  /\ args = [c \in CallIds |-> EmptyObject]
  /\ state = [c \in CallIds |-> "Idle"]
  /\ pc = [c \in CallIds |-> "start"]
  /\ currentFeatures = [c \in CallIds |-> NoValue]
  /\ featureDefinitionCall = [c \in CallIds |-> NoValue]
  /\ result = [c \in CallIds |-> NoResult]
  /\ netlog = [c \in CallIds |-> <<>>]
  /\ microversion = 1
  /\ externalEdits = 0
  /\ channel = [c \in CallIds |-> <<>>]
  /\ registered = <<>>
  /\ phase = "starting"
  /\ environment \in IncompleteEnvironments
  /\ authHeader = AuthHeader(environment)
  /\ stderr = KeysWarning(environment)
  /\ address = EmptyObject
  /\ uri = NoUri
  /\ parsed = NotParsed
  /\ restPath = NoPath
  /\ fetched = NetworkError
  /\ outcome = NotCalled

MissingKeySpec == MissingKeyInit /\ [][Next]_vars

\* ------------------------------------------------------------ the functions on their own

\* Addresses: every combination of present components, of the four shapes and
\* incomplete ones; ids with and without a "/".
AddressIds ==
  { [documentId |-> d, wvm |-> k[1], wvmid |-> k[2], elementId |-> e, partId |-> "P1"] :
      d \in {"D1", "a/b"}, k \in {<<"w", "W1">>, <<"v", "V1">>, <<"m", "M1">>},
      e \in {"E1", "a/b"} }

Addresses ==
  { Strip(a, keys) :
      a \in AddressIds,
      keys \in { ks \in SUBSET {"documentId", "wvm", "wvmid", "elementId", "partId"} :
                   ("wvm" \in ks) = ("wvmid" \in ks) } }

\* What fetch may settle with.
FetchResults ==
  {NetworkError, HttpError(404, "Not Found"), HttpError(500, "Internal Server Error"),
   Ok("json", [id |-> "E1"]), Ok("", EmptyObject), Ok("garbage", EmptyObject)}

FunctionInit ==
  /\ received = 0
  /\ tool = [c \in CallIds |-> "none"]
  /\ args = [c \in CallIds |-> EmptyObject]
  /\ state = [c \in CallIds |-> "Idle"]
  /\ pc = [c \in CallIds |-> "start"]
  /\ currentFeatures = [c \in CallIds |-> NoValue]
  /\ featureDefinitionCall = [c \in CallIds |-> NoValue]
  /\ result = [c \in CallIds |-> NoResult]
  /\ netlog = [c \in CallIds |-> <<>>]
  /\ microversion = 1
  /\ externalEdits = 0
  /\ channel = [c \in CallIds |-> <<>>]
  /\ registered = <<>>
  /\ phase = "starting"
  /\ environment = IssuedKeys
  /\ authHeader = AuthHeader(environment)
  /\ stderr = KeysWarning(environment)
  /\ address \in Addresses
  /\ uri = NoUri
  /\ parsed = NotParsed
  /\ restPath = NoPath
  /\ fetched \in FetchResults
  /\ outcome = NotCalled

\* The deepest component an address has.
Shape(a) ==
  IF Has(a, "partId") THEN "part"
  ELSE IF Has(a, "elementId") THEN "element"
  ELSE IF Has(a, "wvm") THEN "wvm"
  ELSE "document"

\* A call site builds the URI of kind s from the values it holds; the wvm
\* URI is built for a workspace.
BuildUri(s) ==
  /\ uri = NoUri
  /\ s = "wvm" /\ Has(address, "wvm") => address.wvm = "w"
  /\ uri' = [template |-> s, href |-> UriOf(s, address)]
  /\ UNCHANGED <<callVars, serverVars, address, parsed, restPath, fetched, outcome>>

\* The URI is matched against the templates.
ParseUri ==
  /\ uri # NoUri
  /\ parsed = NotParsed
  /\ parsed' = Parse(uri.href)
  /\ UNCHANGED <<callVars, serverVars, address, uri, restPath, fetched, outcome>>

\* A resource handler builds its request path from the params of its
\* template, all present.
BuildPath(s) ==
  /\ restPath = NoPath
  /\ RequiredKeys(s) \subseteq DOMAIN address
  /\ restPath' = [kind |-> s,
                  path |-> CASE s = "wvm" -> WvmPath(address)
                             [] s = "element" -> ElementPath(address)
                             [] s = "part" -> PartPath(address)]
  /\ UNCHANGED <<callVars, serverVars, address, uri, parsed, fetched, outcome>>

\* onshapeApiRequest runs on what fetch settled with.
ApiRequest ==
  /\ outcome = NotCalled
  /\ outcome' = onshapeApiRequest(fetched)
  /\ UNCHANGED <<callVars, serverVars, address, uri, parsed, restPath, fetched>>

FunctionNext ==
  \/ \E s \in BuiltKinds : BuildUri(s)
  \/ ParseUri
  \/ \E s \in {"wvm", "element", "part"} : BuildPath(s)
  \/ ApiRequest

FunctionSpec == FunctionInit /\ [][FunctionNext]_vars

\* ------------------------------------------------------------ properties

StampedTools == {"add_part_studio_feature", "update_part_studio_feature"}

\* The answer to request req was a success: onshapeApiRequest returned a value.
RequestSucceeded(req) == req.response # NoResponse /\ ~onshapeApiRequest(req.response).threw

\* The value onshapeApiRequest returned for request req.
ValueOf(req) == onshapeApiRequest(req.response).value

IsFeatureListRead(c, req) ==
  req.method = "GET" /\ req.path = FeaturesPath(args[c])

\* Request i of call c carries the three stamps of the value read by the
\* request before it.
StampedFrom(body, read) ==
  /\ Has(body, "serializationVersion") /\ Has(body, "libraryVersion")
  /\ Has(body, "sourceMicroversion")
  /\ body.serializationVersion = Field(read, "serializationVersion")
  /\ body.libraryVersion = Field(read, "libraryVersion")
  /\ body.sourceMicroversion = Field(read, "sourceMicroversion")

\* C1: in every interleaving, the body of the write of add_part_studio_feature
\* and update_part_studio_feature carries the serializationVersion,
\* libraryVersion and sourceMicroversion that the same invocation's own
\* preceding read returned, and the caller's feature unmodified.
C1_WriteCarriesOwnStamps ==
  \A c \in CallIds :
    tool[c] \in StampedTools =>
      \A i \in DOMAIN netlog[c] :
        netlog[c][i].method = "POST" =>
          /\ i > 1
          /\ RequestSucceeded(netlog[c][i - 1])
          /\ StampedFrom(netlog[c][i].body, ValueOf(netlog[c][i - 1]))
          /\ Has(netlog[c][i].body, "feature")
          /\ netlog[c][i].body.feature = args[c].feature

\* Two invocations hold different snapshots and different features at once,
\* and both have sent their write.
C1_Witness ==
  \E c, d \in CallIds :
    /\ tool[c] \in StampedTools /\ tool[d] \in StampedTools
    /\ pc[c] = "awaitWrite" /\ pc[d] = "awaitWrite"
    /\ currentFeatures[c].sourceMicroversion # currentFeatures[d].sourceMicroversion
    /\ args[c].feature # args[d].feature

\* The statement of C2 as written: every feature-list write, the DELETE
\* included, directly follows a successful read of the same element in the
\* same invocation and carries its stamps.
C2_EveryWriteFollowsRead ==
  \A c \in CallIds :
    tool[c] \in FeatureTools =>
      \A i \in DOMAIN netlog[c] :
        IsWrite(netlog[c][i]) =>
          /\ i > 1
          /\ IsFeatureListRead(c, netlog[c][i - 1])
          /\ RequestSucceeded(netlog[c][i - 1])
          /\ StampedFrom(netlog[c][i].body, ValueOf(netlog[c][i - 1]))

\* C2 (amended): the POST of add_part_studio_feature and of
\* update_part_studio_feature directly follows, in the same invocation, a
\* successful read of the feature list of the same element and carries its
\* stamps; the DELETE of delete_part_studio_feature is the first request of
\* its invocation and carries no body.
C2_PostFollowsReadDeleteDoesNot ==
  \A c \in CallIds :
    \A i \in DOMAIN netlog[c] :
      /\ (tool[c] \in StampedTools /\ IsWrite(netlog[c][i])) =>
           /\ i = 2
           /\ IsFeatureListRead(c, netlog[c][1])
           /\ RequestSucceeded(netlog[c][1])
           /\ StampedFrom(netlog[c][2].body, ValueOf(netlog[c][1]))
           /\ netlog[c][2].path[7] = args[c].elementId
      /\ (tool[c] = "delete_part_studio_feature" /\ IsWrite(netlog[c][i])) =>
           /\ i = 1
           /\ netlog[c][1].method = "DELETE"
           /\ netlog[c][1].body = NoBody

\* A delete has sent its DELETE while an add or update has sent its POST.
C2_Witness ==
  \E c, d \in CallIds :
    /\ tool[c] = "delete_part_studio_feature" /\ Len(netlog[c]) = 1
    /\ netlog[c][1].method = "DELETE"
    /\ tool[d] \in StampedTools /\ Len(netlog[d]) = 2 /\ netlog[d][2].method = "POST"

\* The statement of C3 as written: a mutation aimed at the id of a version or
\* of a microversion sends no request and ends with an InvalidStateError.
C3_NonWorkspaceRejectedLocally ==
  \A c \in CallIds :
    (/\ tool[c] \in MutationTools
     /\ state[c] \in {"Validated", "Executing", "Succeeded", "Failed"}
     /\ Has(args[c], "workspaceId")
     /\ KindOf(args[c].workspaceId) # "w") =>
      /\ netlog[c] = <<>>
      /\ state[c] # "Succeeded"
      /\ state[c] = "Failed" =>
           result[c].content[1].error = [message |-> "InvalidStateError"]

\* C3 (amended): a mutation tool takes a workspaceId and no state selector:
\* every request it sends addresses /d/{documentId}/w/{workspaceId}, whatever
\* the id designates.  There is no local rejection: with the id of a version
\* or microversion the handler still sends its first request, and when that
\* request is not answered with success the call fails in-band after that
\* single request.
C3_MutationsAddressWorkspacePath ==
  \A c \in CallIds :
    tool[c] \in MutationTools =>
      /\ \A i \in DOMAIN netlog[c] :
           /\ netlog[c][i].path[2] = "d"
           /\ netlog[c][i].path[3] = args[c].documentId
           /\ netlog[c][i].path[4] = "w"
           /\ netlog[c][i].path[5] = args[c].workspaceId
      /\ state[c] \in {"Executing", "Succeeded", "Failed"} /\ pc[c] # "start"
           => Len(netlog[c]) >= 1
      /\ (/\ Len(netlog[c]) >= 1
          /\ netlog[c][1].response # NoResponse
          /\ netlog[c][1].response.status # 200) =>
           /\ Len(netlog[c]) = 1
           /\ state[c] = "Failed"
           /\ result[c].isError

\* A mutation aimed at the id of a version has sent a request to the
\* workspace path and failed on the backend's 404.
C3_Witness ==
  \E c \in CallIds :
    /\ tool[c] \in MutationTools
    /\ Has(args[c], "workspaceId") /\ KindOf(args[c].workspaceId) = "v"
    /\ state[c] = "Failed"
    /\ Len(netlog[c]) = 1
    /\ netlog[c][1].path[4] = "w"
    /\ netlog[c][1].response.status = 404

StampNames == {"serializationVersion", "libraryVersion", "sourceMicroversion"}

PreconditionMessages ==
  {"Failed to fetch necessary Part Studio metadata for adding feature.",
   "Failed to fetch necessary Part Studio metadata for updating feature."}

\* The read of call c returned a feature list that misses a stamp.
ReadMissesStamp(c) ==
  /\ Len(netlog[c]) >= 1
  /\ netlog[c][1].response # NoResponse
  /\ netlog[c][1].response.fetch = "resolved"
  /\ netlog[c][1].response.status = 200
  /\ netlog[c][1].response.text # "garbage"
  /\ \E f \in StampNames :
       netlog[c][1].response.text = "" \/ ~Has(netlog[c][1].response.json, f)

\* C4: when the read of add_part_studio_feature or update_part_studio_feature
\* returns a feature list that misses serializationVersion, libraryVersion or
\* sourceMicroversion, the invocation fails in-band with the precondition
\* error and never sends the write.
C4_MissingStampNoWrite ==
  \A c \in CallIds :
    (tool[c] \in StampedTools /\ ReadMissesStamp(c)) =>
      /\ Len(netlog[c]) = 1
      /\ state[c] = "Failed"
      /\ result[c].isError
      /\ Last(result[c].content).error.message \in PreconditionMessages

\* A read that misses only libraryVersion has failed an invocation.
C4_Witness ==
  \E c \in CallIds :
    /\ tool[c] \in StampedTools
    /\ ReadMissesStamp(c)
    /\ netlog[c][1].response.text = "json"
    /\ DOMAIN netlog[c][1].response.json = StampNames \ {"libraryVersion"}
    /\ state[c] = "Failed"

\* Request req was answered with a success status and a JSON body.
AnsweredJson(req) ==
  /\ req.response # NoResponse
  /\ req.response.fetch = "resolved"
  /\ req.response.status = 200
  /\ req.response.text = "json"

\* Request req failed in the transport: network error, non-success status or
\* a body that does not parse.
FailedInTransport(req) ==
  /\ req.response # NoResponse
  /\ \/ req.response.fetch = "rejected"
     \/ req.response.status # 200
     \/ req.response.text = "garbage"

\* The write of call c was answered with a skew indicator.
WriteSignalledSkew(c) ==
  /\ Len(netlog[c]) >= 1
  /\ IsWrite(Last(netlog[c]))
  /\ AnsweredJson(Last(netlog[c]))
  /\ Has(Last(netlog[c]).response.json, "microversionSkew")

\* The text of res tells of skew: a skew warning, or the raw write response
\* (with its skew indicator) echoed by add_part_studio_feature.
ReportsSkew(res) ==
  \E i \in DOMAIN res.content :
    \/ res.content[i].k = "Warning: Microversion skew detected during deletion."
    \/ /\ res.content[i].k = "Feature added successfully."
       /\ Has(res.content[i].output, "microversionSkew")

\* The text of res holds "New Microversion: mv".
ReportsNewMicroversion(res, mv) ==
  \E i \in DOMAIN res.content :
    /\ res.content[i].k = "New Microversion"
    /\ res.content[i].sourceMicroversion = mv

\* C5: for add, update and delete of a Part Studio feature, a write response
\* that carries a skew indicator yields a result that reports skew together
\* with the new source microversion of that response.
C5_SkewReported ==
  \A c \in CallIds :
    (tool[c] \in FeatureTools /\ WriteSignalledSkew(c)) =>
      /\ result[c] # NoResult
      /\ ReportsSkew(result[c])
      /\ ReportsNewMicroversion(result[c], Last(netlog[c]).response.json.sourceMicroversion)

\* Calls c and d raced on one element: both read the same sourceMicroversion
\* (so both reads came before both writes) and both writes were answered.
Raced(c, d) ==
  /\ c # d
  /\ tool[c] \in StampedTools /\ tool[d] \in StampedTools
  /\ Len(netlog[c]) = 2 /\ Len(netlog[d]) = 2
  /\ args[c].documentId = args[d].documentId
  /\ args[c].workspaceId = args[d].workspaceId
  /\ args[c].elementId = args[d].elementId
  /\ netlog[c][2].body.sourceMicroversion = netlog[d][2].body.sourceMicroversion
  /\ netlog[c][2].response # NoResponse
  /\ netlog[d][2].response # NoResponse

\* C6: two concurrent add/update invocations on one element may both read the
\* same sourceMicroversion and then both write; in that interleaving an
\* invocation whose write response signalled skew tells of it in its result.
C6_RaceSurfacesSkew ==
  \A c, d \in CallIds :
    (Raced(c, d) /\ WriteSignalledSkew(c)) =>
      /\ result[c] # NoResult
      /\ ReportsSkew(result[c])

\* The race of C6 is reachable with the second write answered with skew.
C6_RaceReachable ==
  \E c, d \in CallIds : Raced(c, d) /\ WriteSignalledSkew(d) /\ ~WriteSignalledSkew(c)

\* The write of call c was answered with an error feature state.
WriteAnsweredErrorState(c) ==
  /\ Len(netlog[c]) = 2
  /\ AnsweredJson(netlog[c][2])
  /\ Has(netlog[c][2].response.json, "featureState")
  /\ netlog[c][2].response.json.featureState.featureStatus = "ERROR"

\* C7: a write response of add_part_studio_feature or
\* update_part_studio_feature with featureState.featureStatus = "ERROR" ends
\* the invocation in Succeeded: the result is not flagged isError, it reports
\* the new microversion of the response and it carries the warning of the
\* error state.
C7_ErrorStateIsSuccess ==
  \A c \in CallIds :
    (tool[c] \in StampedTools /\ WriteAnsweredErrorState(c)) =>
      /\ state[c] = "Succeeded"
      /\ ~result[c].isError
      /\ ReportsNewMicroversion(result[c], netlog[c][2].response.json.sourceMicroversion)
      /\ \E i \in DOMAIN result[c].content :
           result[c].content[i].k = "Warning: error state"

\* An add and an update have both been answered with an error feature state.
C7_Witness ==
  \E c, d \in CallIds :
    /\ tool[c] = "add_part_studio_feature" /\ WriteAnsweredErrorState(c)
    /\ tool[d] = "update_part_studio_feature" /\ WriteAnsweredErrorState(d)

\* C8: no retry.  A mutation sends at most one read and at most one write,
\* the write is its last request whatever the answer, and after a write
\* response with skew the invocation has succeeded.
C8_NoRetry ==
  \A c \in CallIds :
    tool[c] \in MutationTools =>
      /\ Cardinality({i \in DOMAIN netlog[c] : netlog[c][i].method = "GET"}) <= 1
      /\ Cardinality({i \in DOMAIN netlog[c] : IsWrite(netlog[c][i])}) <= 1
      /\ \A i \in DOMAIN netlog[c] : IsWrite(netlog[c][i]) => i = Len(netlog[c])
      /\ WriteSignalledSkew(c) => state[c] = "Succeeded" /\ ~result[c].isError

\* One write was answered with skew, another failed in the transport; both
\* invocations are over.
C8_Witness ==
  \E c, d \in CallIds :
    /\ tool[c] \in MutationTools /\ WriteSignalledSkew(c) /\ state[c] = "Succeeded"
    /\ tool[d] \in MutationTools /\ Len(netlog[d]) >= 1 /\ IsWrite(Last(netlog[d]))
    /\ FailedInTransport(Last(netlog[d])) /\ state[d] = "Failed"

\* A failure was raised while the handler of call c executed.
HandlerFailure(c) ==
  \/ Len(netlog[c]) >= 1 /\ FailedInTransport(Last(netlog[c]))
  \/ tool[c] \in StampedTools /\ ReadMissesStamp(c)
  \/ /\ tool[c] = "wvm" /\ state[c] \in {"Executing", "Succeeded", "Failed", "Thrown"}
     /\ args[c].wvm \notin {"w", "v", "m"}

\* C9: every failure raised while a handler executes (a transport error on
\* any request, a missing stamp, an invalid state token) becomes a result
\* flagged isError; no exception leaves a handler.
C9_FailuresReturnedInBand ==
  \A c \in CallIds :
    /\ state[c] # "Thrown"
    /\ HandlerFailure(c) =>
         /\ state[c] = "Failed"
         /\ result[c].isError
         /\ Len(result[c].content) >= 1

\* A transport failure of a write and an invalid state token have both been
\* turned into results.
C9_Witness ==
  \E c, d \in CallIds :
    /\ tool[c] = "add_part_studio_feature" /\ Len(netlog[c]) = 2
    /\ FailedInTransport(netlog[c][2]) /\ state[c] = "Failed"
    /\ tool[d] = "wvm" /\ args[d].wvm = "x" /\ state[d] = "Failed"

\* C10: under fair scheduling every received call is eventually responded to;
\* until then the call always has a step to take, and it gets exactly one
\* response.
C10_EveryCallResponded ==
  /\ \A c \in CallIds : (state[c] = "Received") ~> (state[c] = "Responded")
  /\ [](\A c \in CallIds :
          /\ state[c] \notin {"Idle", "Responded"} => ENABLED Step(c)
          /\ Len(channel[c]) <= 1
          /\ state[c] = "Responded" <=> Len(channel[c]) = 1)

\* Both calls have been responded to, one with an error and one without.
C10_Witness ==
  /\ \A c \in CallIds : state[c] = "Responded" /\ Len(channel[c]) = 1
  /\ \E c, d \in CallIds : channel[c][1].isError /\ ~channel[d][1].isError

\* The moves of a call between its states.  Validation may fail (Received to
\* Failed); a handler that ends before its first await leaves Validated for
\* its outcome within its starting step.
CallTransitions ==
  {<<"Idle", "Received">>, <<"Received", "Validated">>, <<"Received", "Failed">>,
   <<"Validated", "Executing">>, <<"Validated", "Succeeded">>, <<"Validated", "Failed">>,
   <<"Executing", "Succeeded">>, <<"Executing", "Failed">>,
   <<"Succeeded", "Responded">>, <<"Failed", "Responded">>}

MissingRequired(c) == ~(RequiredKeys(tool[c]) \subseteq DOMAIN args[c])

BadStateToken(c) ==
  tool[c] \in ReadTools /\ Has(args[c], "wvm") /\ args[c].wvm \notin {"w", "v", "m"}

BadTransform(c) ==
  tool[c] \in AssemblyTools /\ Has(args[c], "transform") /\ Len(args[c].transform) # 12

\* C12: a tool call whose arguments fail the declared input schema (a missing
\* required field, a wvm outside w/v/m, a transform that has not 12 numbers)
\* gets the in-band validation error; its handler is never started and no
\* request is sent for it.
C12_InvalidArgumentsRejected ==
  \A c \in CallIds :
    (/\ state[c] \notin {"Idle", "Responded"}
     /\ tool[c] \in MutationTools \cup ReadTools
     /\ MissingRequired(c) \/ BadStateToken(c) \/ BadTransform(c)) =>
      /\ state[c] \in {"Received", "Failed"}
      /\ netlog[c] = <<>>
      /\ pc[c] = "start"
      /\ state[c] = "Failed" =>
           /\ result[c].isError
           /\ result[c].content = <<[k |-> "Invalid arguments", tool |-> tool[c]]>>

\* A call with the state token x and a call with a transform of three
\* numbers have both been refused.
C12_Witness ==
  \E c, d \in CallIds :
    /\ BadStateToken(c) /\ state[c] = "Failed"
    /\ BadTransform(d) /\ state[d] = "Failed"

\* C13: a call that names no registered operation gets a result flagged
\* isError whose message no handler and no schema failure produces; the call
\* never reaches a handler, sends no request, and is answered in-band.
C13_UnknownToolRejected ==
  \A c \in CallIds :
    (state[c] \notin {"Idle", "Responded"} /\ tool[c] \in UnregisteredNames) =>
      /\ state[c] \in {"Received", "Failed"}
      /\ netlog[c] = <<>>
      /\ pc[c] = "start"
      /\ state[c] = "Failed" =>
           /\ result[c].isError
           /\ result[c].content[1].k = "Unknown tool"
           /\ \A d \in CallIds :
                (state[d] = "Failed" /\ tool[d] \notin UnregisteredNames) =>
                  result[d].content[1].k # result[c].content[1].k

\* A call to an unregistered name has failed next to a call that failed in
\* its handler.
C13_Witness ==
  \E c, d \in CallIds :
    /\ tool[c] \in UnregisteredNames /\ state[c] = "Failed"
    /\ tool[d] \in MutationTools /\ state[d] = "Failed" /\ netlog[d] # <<>>

\* The table holds no name twice.
NamesDistinct ==
  \A i, j \in DOMAIN registered : registered[i] = registered[j] => i = j

ReadsUnknownState(c) ==
  /\ tool[c] \in ResourceNames
  /\ state[c] \notin {"Idle", "Responded"}
  /\ Has(args[c], "wvm")
  /\ args[c].wvm \notin {"w", "v", "m"}

\* C17: a read of the wvm, element or part resource whose state token is not
\* one of w, v, m sends no request and ends in an error response.
C17_UnknownStateTokenRejected ==
  \A c \in CallIds :
    ReadsUnknownState(c) =>
      /\ netlog[c] = <<>>
      /\ state[c] \in {"Received", "Validated", "Failed"}
      /\ state[c] = "Failed" => result[c].isError

\* What holds of the wvm resource alone.
C17_WvmResourceRejects ==
  \A c \in CallIds :
    (ReadsUnknownState(c) /\ tool[c] = "wvm") =>
      /\ netlog[c] = <<>>
      /\ state[c] \in {"Received", "Validated", "Failed"}
      /\ state[c] = "Failed" => result[c].isError

\* An element read and a part read with the token x are waiting for the
\* answer to the request they sent.
C17_RequestSentForUnknownToken ==
  \E c, d \in CallIds :
    /\ ReadsUnknownState(c) /\ tool[c] = "element" /\ Len(netlog[c]) = 1
    /\ ReadsUnknownState(d) /\ tool[d] = "part" /\ Len(netlog[d]) = 1

\* The address has exactly the components of its shape.
ValidAddress(a) == DOMAIN a = RequiredKeys(Shape(a))

\* C15: for a valid Address of any of the four shapes, matching the URI
\* built from it with the template of its shape gives the Address back.
C15_RoundTrip ==
  (parsed # NotParsed /\ ValidAddress(address) /\ uri.template = Shape(address)) =>
    parsed = address

\* What holds: the round trip for the three shapes the code builds, when no
\* id holds a "/".
C15_RoundTripOfPlainIds ==
  (/\ parsed # NotParsed /\ ValidAddress(address) /\ uri.template = Shape(address)
   /\ \A f \in DOMAIN address : address[f] # "a/b") =>
    parsed = address

\* The URI of an element whose id holds a "/" matches no template.
C15_SlashBreaksRoundTrip ==
  /\ ValidAddress(address) /\ uri.template = "element" /\ Shape(address) = "element"
  /\ address.documentId = "D1" /\ address.elementId = "a/b"
  /\ parsed = NoMatch

\* C16: no URI is produced from an Address that misses a component the
\* template needs; building fails instead.
C16_IncompleteAddressRefused ==
  (uri # NoUri /\ ~(RequiredKeys(uri.template) \subseteq DOMAIN address)) =>
    uri.href = <<>>

\* An element URI made from an Address without element id.
C16_UndefinedInserted ==
  /\ uri.template = "element"
  /\ DOMAIN address = {"documentId", "wvm", "wvmid"}
  /\ uri.href = <<"document", address.documentId, address.wvm, address.wvmid,
                  "element", "undefined">>

\* The request path after its first piece.
AfterEndpoint(path) == SubSeq(path, 2, Len(path))

\* C18 as stated: element-level and part-level paths are
\* /d/{doc}/{w|v|m}/{id}/e/{element}[/pi/{part}] for every selector.
C18_ElementPathsUseE ==
  /\ restPath.kind = "element" =>
       AfterEndpoint(restPath.path) =
         <<"d", address.documentId, address.wvm, address.wvmid, "e", address.elementId>>
  /\ restPath.kind = "part" =>
       AfterEndpoint(restPath.path) =
         <<"d", address.documentId, address.wvm, address.wvmid, "e", address.elementId,
           "pi", address.partId>>

\* C18, amended: the element path is /documents/d/{doc}/{w|v|m}/{id}/elements/{element}
\* and the part path /metadata/d/{doc}/{w|v|m}/{id}/e/{element}/pi/{part} for
\* all three selectors, only the token and the ids substituted; the path of
\* a document+state address names the kind of state (workspaces, versions,
\* or m with currentmicroversion).
C18_PathsAlikeAcrossSelectors ==
  /\ restPath.kind = "element" =>
       restPath.path =
         <<"documents", "d", address.documentId, address.wvm, address.wvmid,
           "elements", address.elementId>>
  /\ restPath.kind = "part" =>
       restPath.path =
         <<"metadata", "d", address.documentId, address.wvm, address.wvmid,
           "e", address.elementId, "pi", address.partId>>
  /\ restPath.kind = "wvm" =>
       restPath.path =
         <<"documents", "d", address.documentId>>
           \o (CASE address.wvm = "w" -> <<"workspaces", address.wvmid>>
                  [] address.wvm = "v" -> <<"versions", address.wvmid>>
                  [] address.wvm = "m" -> <<"m", address.wvmid, "currentmicroversion">>)

\* The path of an element under a version has been built.
C18_Witness ==
  /\ restPath.kind = "element" /\ address.wvm = "v"
  /\ restPath.path[4] = "v" /\ restPath.path[6] = "elements"

SuccessStatus(r) == r.fetch = "resolved" /\ r.status >= 200 /\ r.status <= 299

\* C19 as stated: a value is returned exactly when the status is a success
\* status; any other status gives an error with status, status text and
\* raw body, and no value.
C19_ValueExactlyOnSuccessStatus ==
  outcome # NotCalled =>
    /\ ~outcome.threw <=> SuccessStatus(fetched)
    /\ (fetched.fetch = "resolved" /\ ~SuccessStatus(fetched)) =>
         /\ outcome.threw
         /\ outcome.error.status = fetched.status
         /\ outcome.error.statusText = fetched.statusText
         /\ outcome.error.errorBody = fetched.text

\* C19, amended: a value is returned only on a success status, and then it
\* is the parsed body, or the empty object for an empty body; a success
\* status with a body that is not JSON fails with the parse error; any other
\* status fails with an error carrying status, status text and raw body and
\* returns no value; a fetch that rejects fails without a status.
C19_ValueOnlyOnSuccessStatus ==
  outcome # NotCalled =>
    /\ ~outcome.threw => SuccessStatus(fetched)
    /\ (SuccessStatus(fetched) /\ fetched.text = "json") =>
         outcome = [threw |-> FALSE, value |-> fetched.json, error |-> EmptyObject]
    /\ (SuccessStatus(fetched) /\ fetched.text = "garbage") =>
         outcome.threw /\ ~Has(outcome.error, "status")
    /\ (fetched.fetch = "resolved" /\ ~SuccessStatus(fetched)) =>
         /\ outcome.threw
         /\ outcome.value = EmptyObject
         /\ outcome.error.status = fetched.status
         /\ outcome.error.statusText = fetched.statusText
         /\ outcome.error.errorBody = fetched.text
    /\ fetched.fetch = "rejected" => outcome.threw /\ ~Has(outcome.error, "status")

\* A request answered 500 has failed.
C19_Witness ==
  /\ outcome # NotCalled /\ outcome.threw
  /\ fetched.fetch = "resolved" /\ fetched.status = 500

\* C20: on a success status an empty body gives the empty object, a body
\* that is not JSON gives a failure and no empty object; the two outcomes
\* differ.
C20_EmptyBodyIsNotParseFailure ==
  (outcome # NotCalled /\ SuccessStatus(fetched)) =>
    /\ fetched.text = "" =>
         outcome = [threw |-> FALSE, value |-> EmptyObject, error |-> EmptyObject]
    /\ fetched.text = "garbage" =>
         /\ outcome.threw
         /\ outcome # [threw |-> FALSE, value |-> EmptyObject, error |-> EmptyObject]

\* A body that is not JSON has made the request fail.
C20_Witness ==
  /\ outcome # NotCalled /\ outcome.threw
  /\ SuccessStatus(fetched) /\ fetched.text = "garbage"

\* The request was answered by the backend (fetch did not reject).
AnsweredByBackend(req) == req.response # NoResponse /\ req.response.fetch = "resolved"

\* C21: a process started with a credential value missing has logged it and
\* does not exit: it serves, and no call succeeds.  Every call ends flagged
\* isError; every request that reaches the backend is answered 401, and the
\* call that sent it fails in-band with that error after that one request.
C21_MissingKeyFailsEveryCall ==
  /\ stderr # <<>>
  /\ phase # "crashed"
  /\ \A c \in CallIds :
       /\ state[c] \notin {"Succeeded", "Thrown"}
       /\ state[c] = "Failed" => result[c].isError
       /\ state[c] = "Responded" => channel[c] = <<[isError |-> TRUE]>>
       /\ \A i \in DOMAIN netlog[c] :
            AnsweredByBackend(netlog[c][i]) =>
              /\ netlog[c][i].response.status = 401
              /\ Len(netlog[c]) = 1
              /\ state[c] = "Failed"
              /\ result[c].content[1].error =
                   [message |-> "Onshape API Error", status |-> 401,
                    statusText |-> "Unauthorized",
                    errorBody |-> netlog[c][i].response.text]

\* The server serves without keys: one call was answered with an error, and
\* the next one has just failed on the backend's 401.
C21_Witness ==
  /\ phase = "serving" /\ stderr # <<>>
  /\ \E c, d \in CallIds :
       /\ state[c] = "Responded" /\ channel[c] = <<[isError |-> TRUE]>>
       /\ state[d] = "Failed" /\ Len(netlog[d]) = 1
       /\ AnsweredByBackend(netlog[d][1]) /\ netlog[d][1].response.status = 401

\* C22: the credential is built once, when the module loads, from the
\* environment; no step changes it, and every request of every call
\* carries that same value, whatever the tool, the arguments and the other
\* calls in flight.
C22_OneFixedCredential ==
  /\ [][authHeader' = authHeader /\ environment' = environment]_vars
  /\ [](authHeader =
          <<"Basic", [base64 |-> <<Field(environment, "ONSHAPE_ACCESS_KEY"), ":",
                                   Field(environment, "ONSHAPE_SECRET_KEY")>>]>>)
  /\ [](\A c \in CallIds : \A i \in DOMAIN netlog[c] :
          netlog[c][i].authorization = authHeader)

\* Two calls of different tools are in flight, one at its write and one at
\* its read; their requests carry the same credential.
C22_Witness ==
  \E c, d \in CallIds :
    /\ tool[c] # tool[d]
    /\ Len(netlog[c]) = 2 /\ netlog[c][2].method = "POST" /\ state[c] = "Executing"
    /\ Len(netlog[d]) = 1 /\ netlog[d][1].method = "GET" /\ state[d] = "Executing"
    /\ netlog[c][2].authorization = netlog[d][1].authorization

\* The handler registered under name t.
HandlerOf(t, params, at, cf, fdc, r) ==
  CASE t = "add_part_studio_feature" -> add_part_studio_feature(params, at, cf, fdc, r)
    [] t = "update_part_studio_feature" -> update_part_studio_feature(params, at, cf, fdc, r)
    [] t = "delete_part_studio_feature" -> delete_part_studio_feature(params, at, cf, fdc, r)
    [] t = "add_assembly_instance" -> add_assembly_instance(params, at, cf, fdc, r)
    [] t = "transform_assembly_instances" ->
         transform_assembly_instances(params, at, cf, fdc, r)
    [] t = "list_elements" -> list_elements(params, at, cf, fdc, r)
    [] t = "document" -> document_resource(params, at, cf, fdc, r)
    [] t = "wvm" -> wvm_resource(params, at, cf, fdc, r)
    [] t = "element" -> element_resource(params, at, cf, fdc, r)
    [] t = "part" -> part_resource(params, at, cf, fdc, r)

\* The handler of t run alone on params, resumed in turn with the answers:
\* where it stands after them and the requests it has sent.
RECURSIVE RunAlone(_, _, _, _, _)
RunAlone(t, params, step, sent, answers) ==
  LET log == IF step.next = "await" THEN Append(sent, step.request) ELSE sent
  IN  IF step.next # "await" \/ answers = <<>>
        THEN [step |-> step, sent |-> log]
        ELSE RunAlone(t, params,
                      HandlerOf(t, params, step.pc, step.currentFeatures,
                                step.featureDefinitionCall,
                                onshapeApiRequest(Head(answers))),
                      log, Tail(answers))

\* The answers call c has received, in order, and its requests as sent.
AnswersOf(c) ==
  LET n == IF netlog[c] # <<>> /\ Last(netlog[c]).response = NoResponse
             THEN Len(netlog[c]) - 1 ELSE Len(netlog[c])
  IN  [i \in 1..n |-> netlog[c][i].response]

AsSent(req) == [req EXCEPT !.response = NoResponse]

AloneOf(c) ==
  RunAlone(tool[c], args[c],
           HandlerOf(tool[c], args[c], "start", NoValue, NoValue, NoOutcome),
           <<>>, AnswersOf(c))

\* The variables of call c.
OfCall(c) ==
  <<tool[c], args[c], state[c], pc[c], currentFeatures[c], featureDefinitionCall[c],
    result[c], netlog[c], channel[c]>>

\* C23: handlers share no mutable state.  A step changes the variables of
\* one call at most, and whatever the other calls in flight do, the requests
\* a call has sent, the locals of its handler and the result it returns are
\* those its handler yields when run alone on the call's own arguments and
\* the answers the call received.
C23_HandlersShareNoState ==
  /\ [][\A c, d \in CallIds :
          (OfCall(c)' # OfCall(c) /\ OfCall(d)' # OfCall(d)) => c = d]_vars
  /\ [](\A c \in CallIds :
          (state[c] \in {"Executing", "Succeeded", "Failed"} /\ pc[c] # "start") =>
            LET alone == AloneOf(c)
            IN  /\ [i \in DOMAIN netlog[c] |-> AsSent(netlog[c][i])] = alone.sent
                /\ pc[c] = alone.step.pc
                /\ currentFeatures[c] = alone.step.currentFeatures
                /\ featureDefinitionCall[c] = alone.step.featureDefinitionCall
                /\ state[c] # "Executing" => result[c] = alone.step.result)

\* Two calls of add_part_studio_feature on different elements have
\* interleaved: both read before either wrote, and both have succeeded.
C23_Witness ==
  \E c, d \in CallIds :
    /\ c # d
    /\ tool[c] = "add_part_studio_feature" /\ tool[d] = "add_part_studio_feature"
    /\ args[c].elementId # args[d].elementId
    /\ state[c] = "Succeeded" /\ state[d] = "Succeeded"
    /\ netlog[c][1].response.json.sourceMicroversion
         = netlog[d][1].response.json.sourceMicroversion
    /\ netlog[c][2].response.json.sourceMicroversion
         # netlog[d][2].response.json.sourceMicroversion

\* The write of call c was answered with notices.
WriteAnsweredNotices(c) ==
  /\ Len(netlog[c]) = 2
  /\ AnsweredJson(netlog[c][2])
  /\ Has(netlog[c][2].response.json, "notices")
  /\ netlog[c][2].response.json.notices # <<>>

\* The text of res holds every notice, level and message, in order: as "-
\* [level] message" lines, or inside the write response that
\* add_part_studio_feature echoes.
CarriesNotices(res, notices) ==
  \/ \E k \in 0..Len(res.content) :
       /\ k + Len(notices) <= Len(res.content)
       /\ \A i \in DOMAIN notices :
            res.content[k + i] =
              [k |-> "Notice", level |-> notices[i].level, message |-> notices[i].message]
  \/ \E i \in DOMAIN res.content :
       /\ res.content[i].k = "Feature added successfully."
       /\ Has(res.content[i].output, "notices")
       /\ res.content[i].output.notices = notices

\* C24: the result of a successful add_part_studio_feature or
\* update_part_studio_feature carries every notice of the write response,
\* in order, and the new source microversion, also when the response has an
\* error feature state.
C24_NoticesAndMicroversionReported ==
  \A c \in CallIds :
    (tool[c] \in StampedTools /\ WriteAnsweredNotices(c)) =>
      /\ state[c] = "Succeeded"
      /\ ReportsNewMicroversion(result[c], netlog[c][2].response.json.sourceMicroversion)
      /\ CarriesNotices(result[c], netlog[c][2].response.json.notices)

\* What holds: the notices are listed when the response has no error
\* feature state, and the new microversion is reported either way.
C24_NoticesListedWithoutErrorState ==
  \A c \in CallIds :
    (tool[c] \in StampedTools /\ WriteAnsweredNotices(c)) =>
      /\ state[c] = "Succeeded"
      /\ ReportsNewMicroversion(result[c], netlog[c][2].response.json.sourceMicroversion)
      /\ ~WriteAnsweredErrorState(c) =>
           CarriesNotices(result[c], netlog[c][2].response.json.notices)

\* An update was answered with an error feature state and a notice, and its
\* result lists no notice.
C24_NoticeDropped ==
  \E c \in CallIds :
    /\ tool[c] = "update_part_studio_feature"
    /\ WriteAnsweredNotices(c) /\ WriteAnsweredErrorState(c)
    /\ state[c] = "Succeeded"
    /\ \A i \in DOMAIN result[c].content : result[c].content[i].k # "Notice"

\* Call c is a transform of assembly instances whose handler has run.
TransformRan(c) ==
  /\ tool[c] = "transform_assembly_instances"
  /\ state[c] \in {"Executing", "Succeeded", "Failed"}
  /\ pc[c] # "start"

\* C25 as stated: the write of transform_assembly_instances follows a read of
\* the same invocation and embeds the caller's transform with the three
\* stamps of that read.
C25_TransformIsStamped ==
  \A c \in CallIds :
    TransformRan(c) =>
      \A i \in DOMAIN netlog[c] :
        netlog[c][i].method = "POST" =>
          /\ i > 1
          /\ netlog[c][i - 1].method = "GET"
          /\ StampNames \cup {"transform"} \subseteq DOMAIN netlog[c][i].body
          /\ netlog[c][i].body.transform = args[c].transform

\* C25, amended: transform_assembly_instances sends one request, a POST to
\* the transformoccurrences path of the caller's assembly, with no read
\* before it; its payload is the caller's occurrences and transform,
\* unmodified, with isRelative when given, and carries no stamp.
C25_TransformIsOneUnstampedWrite ==
  \A c \in CallIds :
    TransformRan(c) =>
      /\ Len(netlog[c]) = 1
      /\ netlog[c][1].method = "POST"
      /\ netlog[c][1].path =
           <<"assemblies", "d", args[c].documentId, "w", args[c].workspaceId,
             "e", args[c].assemblyElementId, "transformoccurrences">>
      /\ DOMAIN netlog[c][1].body =
           {"occurrences", "transform"} \cup (DOMAIN args[c] \cap {"isRelative"})
      /\ netlog[c][1].body.occurrences = args[c].occurrences
      /\ netlog[c][1].body.transform = args[c].transform

\* A transform has succeeded with its single write.
C25_Witness ==
  \E c \in CallIds :
    /\ TransformRan(c) /\ state[c] = "Succeeded"
    /\ Len(netlog[c]) = 1 /\ netlog[c][1].response.status = 200

\* ---------------------------------------------------------------- C26

\* The invocation C26 names: documentId "D1", state "v", stateId "V1", given
\* to list_elements, whose handler has finished.
ListsD1AtV1(c) ==
  /\ tool[c] = "list_elements"
  /\ args[c] = [documentId |-> "D1", wvm |-> "v", wvmid |-> "V1"]
  /\ state[c] \in {"Succeeded", "Failed"}

\* C26 as stated: the tool invoked with documentId "D1", state "v", stateId
\* "V1" answers with a text carrying "D1" and "V1", the same on every run,
\* and sends no request.
C26_FormatsWithoutNetwork ==
  \A c \in CallIds :
    ListsD1AtV1(c) =>
      /\ netlog[c] = <<>>
      /\ result[c] =
           Success(<<[k |-> "Elements in document", documentId |-> "D1",
                      wvm |-> "V", wvmid |-> "V1"]>>)

\* C26, amended: list_elements invoked with documentId "D1", state "v",
\* stateId "V1" sends exactly one request, a GET of
\* /documents/d/D1/v/V1/elements with elementType=PARTSTUDIO,ASSEMBLY; when
\* the request is answered with a value the text is the heading carrying
\* "D1" and "V1" followed by the elements of that answer, and when the
\* request fails the response is an error carrying the failure.
C26_ListElementsFormatsOneRead ==
  \A c \in CallIds :
    ListsD1AtV1(c) =>
      /\ Len(netlog[c]) = 1
      /\ netlog[c][1].method = "GET"
      /\ netlog[c][1].path =
           <<"documents", "d", "D1", "v", "V1", "elements",
             "?elementType", "PARTSTUDIO,ASSEMBLY">>
      /\ netlog[c][1].body = NoBody
      /\ LET answer == onshapeApiRequest(netlog[c][1].response)
         IN IF answer.threw
              THEN /\ state[c] = "Failed"
                   /\ result[c] =
                        Failure(<<[k |-> "Error listing elements",
                                   error |-> answer.error]>>)
              ELSE /\ state[c] = "Succeeded"
                   /\ result[c].isError = FALSE
                   /\ Len(result[c].content) >= 2
                   /\ result[c].content[1] =
                        [k |-> "Elements in document", documentId |-> "D1",
                         wvm |-> "V", wvmid |-> "V1"]
                   /\ Len(answer.value) > 0 =>
                        /\ Len(result[c].content) = 1 + Len(answer.value)
                        /\ \A i \in DOMAIN answer.value :
                             result[c].content[i + 1].id =
                               Field(answer.value[i], "id")

\* The elements of version V1 of D1 have been listed from the backend's
\* answer to the one request.
C26_Witness ==
  \E c \in CallIds :
    /\ ListsD1AtV1(c) /\ state[c] = "Succeeded"
    /\ Len(netlog[c]) = 1 /\ netlog[c][1].response.status = 200
    /\ Len(result[c].content) >= 2
    /\ result[c].content[2].k = "Element"

\* ---------------------------------------------------------------- C27

\* Call c reads a resource.
ReadsResource(c) == tool[c] \in ResourceNames

\* C27: the document, wvm, element and part handlers send only GET requests,
\* at most one per read; no step of a resource read changes the microversion
\* of the document, which moves only with an edit made elsewhere or with the
\* answer to a write of a tool; and every POST or DELETE is sent by a tool
\* handler.
C27_ResourcesReadOnly ==
  /\ [](\A c \in CallIds :
          /\ ReadsResource(c) =>
               /\ Len(netlog[c]) <= 1
               /\ \A i \in DOMAIN netlog[c] :
                    netlog[c][i].method = "GET" /\ netlog[c][i].body = NoBody
          /\ \A i \in DOMAIN netlog[c] :
               IsWrite(netlog[c][i]) => tool[c] \in MutationTools)
  /\ [][ /\ \A c \in CallIds :
             ReadsResource(c) /\ <<state[c], pc[c], netlog[c], result[c]>>' #
                                   <<state[c], pc[c], netlog[c], result[c]>>
               => microversion' = microversion
         /\ microversion' # microversion =>
              \/ externalEdits' # externalEdits
              \/ \E c \in CallIds :
                   /\ tool[c] \in MutationTools
                   /\ state[c] = "Executing"
                   /\ IsWrite(Last(netlog[c]))
                   /\ netlog'[c] # netlog[c] ]_vars

\* Each of two concurrent calls has read a resource and been answered, and
\* the document is at the microversion it started at.
C27_Witness ==
  /\ \A c \in CallIds :
       /\ ReadsResource(c) /\ state[c] \in {"Succeeded", "Responded"}
       /\ Len(netlog[c]) = 1 /\ netlog[c][1].response.status = 200
  /\ \E c \in CallIds : tool[c] = "document"
  /\ microversion = 1

\* ---------------------------------------------------------------- C28

\* The read of call c failed in the transport.
ReadFailedInTransport(c) ==
  /\ Len(netlog[c]) >= 1
  /\ netlog[c][1].method = "GET"
  /\ FailedInTransport(netlog[c][1])

\* C28: in add_part_studio_feature and update_part_studio_feature, a read
\* that fails in the transport ends the invocation with an isError response
\* that carries the failure, and the read stays its only request; a write is
\* sent only as the second request, after the read was answered with a
\* success status and a value holding all three stamps.
C28_NoWriteWithoutReadSuccess ==
  \A c \in CallIds :
    tool[c] \in StampedTools =>
      /\ ReadFailedInTransport(c) =>
           /\ Len(netlog[c]) = 1
           /\ state[c] = "Failed"
           /\ result[c].isError
           /\ Last(result[c].content).error =
                onshapeApiRequest(netlog[c][1].response).error
      /\ \A i \in DOMAIN netlog[c] :
           IsWrite(netlog[c][i]) =>
             /\ i = 2
             /\ netlog[c][1].method = "GET"
             /\ netlog[c][1].response # NoResponse
             /\ netlog[c][1].response.fetch = "resolved"
             /\ netlog[c][1].response.status \in 200..299
             /\ netlog[c][1].response.text = "json"
             /\ StampNames \subseteq DOMAIN netlog[c][1].response.json

\* An update ended after its read was refused with status 500, a network
\* error ended the read of an add, and neither sent a write.
C28_Witness ==
  \E c, d \in CallIds :
    /\ tool[c] = "update_part_studio_feature" /\ ReadFailedInTransport(c)
    /\ netlog[c][1].response.fetch = "resolved" /\ netlog[c][1].response.status = 500
    /\ state[c] = "Failed"
    /\ tool[d] = "add_part_studio_feature" /\ ReadFailedInTransport(d)
    /\ netlog[d][1].response.fetch = "rejected"
    /\ state[d] = "Failed"

\* ---------------------------------------------------------------- C29

\* The document, workspace and element a feature path addresses.
TargetOf(path) == [documentId |-> path[3], state |-> path[4],
                   workspaceId |-> path[5], elementId |-> path[7]]

\* Call c of add or update has sent its write.
StampedWriteSent(c) ==
  /\ tool[c] \in StampedTools
  /\ Len(netlog[c]) = 2
  /\ netlog[c][2].method = "POST"

\* C29: in add_part_studio_feature and update_part_studio_feature the read
\* and the write of one invocation address the same document, workspace and
\* element, those of the caller's arguments, whatever the other invocation
\* addresses.
C29_ReadAndWriteSameTarget ==
  \A c \in CallIds :
    StampedWriteSent(c) =>
      /\ Len(netlog[c][1].path) >= 8 /\ Len(netlog[c][2].path) >= 8
      /\ netlog[c][1].path[1] = "partstudios"
      /\ SubSeq(netlog[c][2].path, 1, 8) = SubSeq(netlog[c][1].path, 1, 8)
      /\ TargetOf(netlog[c][2].path) = TargetOf(netlog[c][1].path)
      /\ TargetOf(netlog[c][1].path) =
           [documentId |-> args[c].documentId, state |-> "w",
            workspaceId |-> args[c].workspaceId, elementId |-> args[c].elementId]

\* Two invocations that address different elements have both sent their
\* write, one of them an update.
C29_Witness ==
  \E c, d \in CallIds :
    /\ StampedWriteSent(c) /\ StampedWriteSent(d)
    /\ tool[c] = "update_part_studio_feature"
    /\ args[c].elementId # args[d].elementId

\* ---------------------------------------------------------------- C30

\* The handler of a mutation tool has returned for call c.
MutationReturned(c) ==
  /\ tool[c] \in MutationTools
  /\ state[c] \in {"Succeeded", "Failed"}

\* The last request of call c is a write that failed in the transport.
WriteFailedInTransport(c) ==
  /\ Len(netlog[c]) >= 1
  /\ IsWrite(Last(netlog[c]))
  /\ FailedInTransport(Last(netlog[c]))

\* C30: the response of a mutation tool is not flagged isError only if its
\* write was answered with a success status; when the write fails in the
\* transport the response is flagged isError, reports no new microversion,
\* and the failed write stays the only write of the invocation.
C30_SuccessOnlyAfterWriteSuccess ==
  \A c \in CallIds :
    MutationReturned(c) =>
      /\ ~result[c].isError =>
           /\ state[c] = "Succeeded"
           /\ Len(netlog[c]) >= 1
           /\ IsWrite(Last(netlog[c]))
           /\ Last(netlog[c]).response # NoResponse
           /\ Last(netlog[c]).response.fetch = "resolved"
           /\ Last(netlog[c]).response.status \in 200..299
      /\ WriteFailedInTransport(c) =>
           /\ state[c] = "Failed"
           /\ result[c].isError
           /\ \A i \in DOMAIN result[c].content :
                result[c].content[i].k # "New Microversion"
           /\ Cardinality({i \in DOMAIN netlog[c] : IsWrite(netlog[c][i])}) = 1

\* A delete whose write was refused has returned its error while an add
\* whose write was answered 200 has returned its success.
C30_Witness ==
  \E c, d \in CallIds :
    /\ tool[c] = "delete_part_studio_feature" /\ MutationReturned(c)
    /\ WriteFailedInTransport(c) /\ result[c].isError
    /\ tool[d] = "add_part_studio_feature" /\ MutationReturned(d)
    /\ ~result[d].isError /\ Last(netlog[d]).response.status = 200

====
